---- MODULE Spec2Model ----
(***************************************************************************)
(* The room/session WebSocket server of ridethebus (server.ts, deck.ts),   *)
(* as a state machine.  One action per event handler of the server: the    *)
(* 'connection' handler (split by its four outcomes), the two 'message'    *)
(* handlers, the 'error' and 'close' handlers, the cleanup interval and    *)
(* the rooms-list interval; plus the environment's steps (the peer starts  *)
(* closing a socket, the clock advances).  Node runs each handler to       *)
(* completion, so each handler is one atomic step.                         *)
(***************************************************************************)
EXTENDS Integers, Sequences, FiniteSets, TLC

(***************************************************************************)
(* Bounds of the model.                                                    *)
(***************************************************************************)
MaxConn == 2        \* sockets the server knows of at one time
MaxTicks == 1       \* the clock advances while now < MaxTicks * ROOM_TIMEOUT
MaxScore == 1       \* a correct guess is explored while the score is below
NumShuffles == 1    \* outcomes of Deck.shuffle that are explored

(***************************************************************************)
(* Program constants.  Times are in minutes (the source has milliseconds). *)
(***************************************************************************)
DUPLICATE_CONNECTION == 4001
\* a variant in which the code for missing parameters is not a code of its own
MISSING_PARAMS_Reused == DUPLICATE_CONNECTION
MISSING_PARAMS == 4000
INVALID_ROOM == 4002
INTERNAL_ERROR == 4003
NORMAL_CLOSURE == 1000
GOING_AWAY == 1001
ROOM_TIMEOUT == 30
NUM_VALUES == 13

Conns == 1..MaxConn
\* The (room, name) pairs the clients ask for: two names in one room, two
\* rooms, and two pairs with the same key, "a:b:c".
Identities == { <<"a", "c">>, <<"a", "b:c">>, <<"a:b", "c">> }
\* The requests that carry exactly one of the two parameters ("" is absent).
HalfIdentities == { <<"a", "">>, <<"", "c">> }
Suits == <<"hearts", "diamonds", "clubs", "spades">>
DECK_SIZE == Len(Suits) * NUM_VALUES
Stages == {"red_black", "higher_lower", "inside_outside", "suit"}
\* the guess tokens the participants send
Guesses == {"red", "lower", "outside", "hearts"}

Null == "null"      \* JavaScript's null, for a stage
NullRef == 0        \* no object

\* The key of the Connection Registry: `${roomId}:${playerName}`.
ConnectionKey(roomId, playerName) == roomId \o ":" \o playerName

(***************************************************************************)
(* Maps (JavaScript Map) as functions with a finite domain.                *)
(***************************************************************************)
MapSet(m, k, v) == [x \in DOMAIN m \cup {k} |-> IF x = k THEN v ELSE m[x]]
MapDelete(m, k) == [x \in DOMAIN m \ {k} |-> m[x]]
EmptyMap == [x \in {} |-> NullRef]

(***************************************************************************)
(* deck.ts                                                                 *)
(***************************************************************************)
Card(suit, value) == [suit |-> suit, value |-> value]

\* JavaScript's null, for a card
NoCard == [suit |-> Null, value |-> 0]

\* Deck.reset before the shuffle: suits outer, values 1..13 inner.
FreshCards ==
  [i \in 1..DECK_SIZE |->
     Card(Suits[((i - 1) \div NUM_VALUES) + 1], ((i - 1) % NUM_VALUES) + 1)]

Reverse(s) == [i \in 1..Len(s) |-> s[Len(s) + 1 - i]]

\* The cards a shuffle leaves on top, in the order they will be drawn.
\* Fisher-Yates can produce every permutation; these are the explored ones.
TopOfDeck(k) ==
  CASE k = 1 -> << Card("hearts", 7), Card("clubs", 3), Card("diamonds", 3),
                   Card("spades", 9), Card("hearts", 9) >>
    [] k = 2 -> << Card("spades", 9), Card("diamonds", 7), Card("clubs", 10),
                   Card("hearts", 12), Card("clubs", 12) >>
    [] OTHER -> << Card("diamonds", 1), Card("hearts", 13), Card("spades", 10),
                   Card("clubs", 10), Card("diamonds", 2) >>

InSeq(x, s) == \E i \in 1..Len(s) : s[i] = x

\* Deck.shuffle: one of the explored permutations of the 52 cards; draw pops
\* from the end of the array, so the top cards are at the end.
Shuffle(cards, k) ==
  SelectSeq(cards, LAMBDA c : ~InSeq(c, TopOfDeck(k))) \o Reverse(TopOfDeck(k))

Shuffled == [k \in 1..NumShuffles |-> Shuffle(FreshCards, k)]

\* A Deck is held as the shuffle that ordered it and the number of cards
\* left: reset and pop are its only writes, so its array is a prefix of
\* that shuffle.
Cards(deck) == SubSeq(Shuffled[deck.order], 1, deck.length)

\* Deck.reset: rebuild the 52 cards, then shuffle.
DeckReset(k) == [order |-> k, length |-> Len(Shuffled[k])]

\* Deck.draw: cards.pop() || null -- the drawn card and the remaining deck.
DrawCard(deck) == IF deck.length = 0 THEN NoCard ELSE Shuffled[deck.order][deck.length]
\* a variant that takes two cards off the deck at every draw
DrawRest_Two(deck) ==
  IF deck.length < 2 THEN [deck EXCEPT !.length = 0]
  ELSE [deck EXCEPT !.length = @ - 2]

DrawRest(deck) == IF deck.length = 0 THEN deck ELSE [deck EXCEPT !.length = @ - 1]

(***************************************************************************)
(* server.ts: the pure functions                                           *)
(***************************************************************************)
Abs(x) == IF x < 0 THEN -x ELSE x

checkGuess(guess, currentCard, nextCard) ==
  CASE guess = "red" -> nextCard.suit = "hearts" \/ nextCard.suit = "diamonds"
    [] guess = "black" -> nextCard.suit = "clubs" \/ nextCard.suit = "spades"
    [] guess = "higher" -> nextCard.value > currentCard.value
    [] guess = "lower" -> nextCard.value < currentCard.value
    [] guess = "inside" -> Abs(nextCard.value - currentCard.value) <= 3
    [] guess = "outside" -> Abs(nextCard.value - currentCard.value) > 3
    [] OTHER -> nextCard.suit = guess

\* a variant that leaves out the second stage
getNextStage_Skip(currentStage) ==
  CASE currentStage = "red_black" -> "inside_outside"
    [] currentStage = "inside_outside" -> "suit"
    [] OTHER -> Null

getNextStage(currentStage) ==
  CASE currentStage = "red_black" -> "higher_lower"
    [] currentStage = "higher_lower" -> "inside_outside"
    [] currentStage = "inside_outside" -> "suit"
    [] currentStage = "suit" -> Null
    [] OTHER -> Null

(***************************************************************************)
(* server.ts: the state                                                    *)
(*                                                                         *)
(* ws[c]       the socket c: readyState ("NEW" before the server accepts   *)
(*             it), kind (which handlers the 'connection' handler          *)
(*             attached), recv (the receiver still delivers 'message'      *)
(*             events: false once the peer's close frame, a receiver error *)
(*             or the socket's end has been seen), room (the Room object   *)
(*             captured by the closure of its handlers).                   *)
(* rooms       Map roomId -> Room object (the Room Store).                 *)
(* heap        the Room objects, by identity: a Room object is named by    *)
(*             the first socket that holds it (in its player list or in    *)
(*             the closure of its handlers).                               *)
(* players     the keys of Map<WebSocket, Player>; the Player stored for   *)
(*             socket c is always the object created in c's handler.       *)
(* playerObj   the Player objects, by the socket they were created for.    *)
(* connections Map "roomId:playerName" -> socket (the Registry).           *)
(* roomListConnections  the directory listeners.                           *)
(* now         Date.now(), in minutes.                                     *)
(* ev          the handler that ran last and its input (history).          *)
(* sent        what the last handler sent, per receiving socket, in order  *)
(*             (history; the order between two sockets is not observable). *)
(* client      one GamePage (the browser side of one participant): its     *)
(*             socket, retryCount, error, reconnect timeout and mountedRef.*)
(*                                                                         *)
(* Room.createdAt and Player.connectionTime are written once and never     *)
(* read; they are left out.                                                *)
(***************************************************************************)
VARIABLES ws, rooms, heap, players, playerObj, connections,
          roomListConnections, now, ev, sent, client

vars == << ws, rooms, heap, players, playerObj, connections,
           roomListConnections, now, ev, sent, client >>

\* GamePage before its first connect(): no socket, retryCount 0, no error,
\* no reconnect timeout, mounted.  seen is the retryCount the handlers of
\* the current socket closed over, op and code the handler that ran last.
NoClient ==
  [socket |-> "none", retryCount |-> 0, seen |-> 0, error |-> "",
   reconnect |-> FALSE, mounted |-> TRUE, op |-> "", code |-> 0]

NewSocket == [readyState |-> "NEW", kind |-> "none", recv |-> FALSE, room |-> NullRef]

NoSent == [c \in Conns |-> << >>]

NoMsg == [type |-> "", guess |-> ""]

Ev(op, c, roomId, name, msg, code, other) ==
  [op |-> op, c |-> c, roomId |-> roomId, name |-> name, msg |-> msg, code |-> code,
   other |-> other]

\* The inbound payloads: the typed messages, a message of a type the switch
\* does not know, and a payload JSON.parse (or reading data.type) throws on.
Messages ==
  {[type |-> t, guess |-> ""] :
     t \in {"ping", "startGame", "getState", "unknown", "malformed"}}
  \cup {[type |-> "guess", guess |-> g] : g \in Guesses}

\* What a directory listener is sent: its two requests, the messages meant
\* for a room, and a payload that does not parse.
RoomListMessages ==
  {[type |-> t, guess |-> ""] :
     t \in {"ping", "getRooms", "startGame", "getState", "malformed"}}
  \cup {[type |-> "guess", guess |-> "red"]}

\* A socket is accepted under the first unused identity.
Accepts(c) == ws[c].readyState = "NEW" /\ \A d \in Conns : d < c => ws[d].readyState # "NEW"

\* WebSocket.close(code): an open socket starts closing; otherwise no effect.
WsClose(w) == IF w.readyState = "OPEN" THEN [w EXCEPT !.readyState = "CLOSING"] ELSE w

\* ws.send on socket c: queued if the socket is open, dropped otherwise.
SendTo(S, W, c, msg) ==
  IF W[c].readyState = "OPEN" THEN [S EXCEPT ![c] = Append(@, msg)] ELSE S

\* room.players.map(p => ({ name: p.name, score: p.score }))
Projection(list, PO) ==
  [i \in 1..Len(list) |-> [name |-> PO[list[i]].name, score |-> PO[list[i]].score]]

\* broadcastToRoom's loop: one send to every player whose socket is open.
\* a variant that gives up at the first player whose socket is not open
Broadcast_UntilFailure(S, W, list, msg) ==
  [c \in Conns |->
     IF /\ InSeq(c, list)
        /\ \A i \in 1..Len(list) :
             (\E j \in i..Len(list) : list[j] = c) => W[list[i]].readyState = "OPEN"
       THEN Append(S[c], msg) ELSE S[c]]

Broadcast(S, W, list, msg) ==
  [c \in Conns |->
     IF InSeq(c, list) /\ W[c].readyState = "OPEN" THEN Append(S[c], msg) ELSE S[c]]

Init ==
  /\ ws = [c \in Conns |-> NewSocket]
  /\ rooms = EmptyMap
  /\ heap = EmptyMap
  /\ players = {}
  /\ playerObj = EmptyMap
  /\ connections = EmptyMap
  /\ roomListConnections = {}
  /\ now = 0
  /\ ev = Ev("init", NullRef, "", "", NoMsg, 0, NullRef)
  /\ sent = NoSent
  /\ client = NoClient

(***************************************************************************)
(* Objects no handler can reach any more are dropped from the heap: a Room *)
(* that is neither in the Room Store nor captured by a socket that can     *)
(* still deliver a message, and a Player that is in no map, no room list   *)
(* and no such closure.  A socket that no handler will run for again and   *)
(* that no map or list holds (a rejected one, a closed one) is forgotten:  *)
(* its identity names the next socket the server accepts.                  *)
(***************************************************************************)
LiveRooms(W, R) ==
  {R[r] : r \in DOMAIN R} \cup {W[c].room : c \in {x \in Conns : W[x].recv}}

Forgotten(W, c, P, CN, RL, listed) ==
  /\ W[c].readyState # "NEW"
  /\ W[c].kind = "none" \/ W[c].readyState = "CLOSED"
  /\ c \notin P /\ c \notin RL /\ c \notin listed
  /\ \A key \in DOMAIN CN : CN[key] # c

\* the sockets that hold the Room object o
Holders(W, H, o) ==
  {c \in Conns : (W[c].recv /\ W[c].room = o) \/ InSeq(c, H[o].players)}

\* the name of the Room object o
ObjectName(W, H, o) ==
  IF o \notin DOMAIN H THEN o
  ELSE IF Holders(W, H, o) = {} THEN MaxConn + o
  ELSE CHOOSE c \in Holders(W, H, o) : \A d \in Holders(W, H, o) : c <= d

Collect(W, R, H, P, PO, CN, RL, N, E, S) ==
  LET live == LiveRooms(W, R) \cap DOMAIN H
      listed == {c \in DOMAIN PO : \E o \in live : InSeq(c, H[o].players)}
      keep == {c \in DOMAIN PO : c \in P \/ W[c].recv \/ c \in listed}
  IN  /\ ws' = [c \in Conns |->
                  IF Forgotten(W, c, P, CN, RL, listed) THEN NewSocket
                  ELSE IF W[c].recv THEN [W[c] EXCEPT !.room = ObjectName(W, H, @)]
                  ELSE [W[c] EXCEPT !.room = NullRef]]
      /\ rooms' = [r \in DOMAIN R |-> ObjectName(W, H, R[r])]
      /\ heap' = [n \in {ObjectName(W, H, o) : o \in live} |->
                    H[CHOOSE o \in live : ObjectName(W, H, o) = n]]
      /\ players' = P
      /\ playerObj' = [c \in keep |-> PO[c]]
      /\ connections' = CN
      /\ roomListConnections' = RL
      /\ now' = N
      /\ ev' = E
      /\ sent' = S
      /\ client' = client

(***************************************************************************)
(* wss.on('connection'): a directory listener (neither room nor name).     *)
(* sendRoomsList runs once; the interval and the handlers are attached.    *)
(***************************************************************************)
\* a variant that counts the registered players only
RoomsList_Registered(R, H, PO) ==
  {[id |-> r,
    players |-> Projection(H[R[r]].players, PO),
    isGameStarted |-> H[R[r]].isGameStarted,
    playerCount |-> Cardinality({c \in players : InSeq(c, H[R[r]].players)}),
    creator |-> H[R[r]].creator] : r \in DOMAIN R}

RoomsList(R, H, PO) ==
  {[id |-> r,
    players |-> Projection(H[R[r]].players, PO),
    isGameStarted |-> H[R[r]].isGameStarted,
    playerCount |-> Len(H[R[r]].players),
    creator |-> H[R[r]].creator] : r \in DOMAIN R}

sendRoomsList(S, W, c) ==
  SendTo(S, W, c, [type |-> "roomsList", rooms |-> RoomsList(rooms, heap, playerObj)])

\* a variant that also enters the listener in the registry
ConnectRoomList_Registered(c) ==
  /\ Accepts(c)
  /\ LET W == [ws EXCEPT ![c] = [readyState |-> "OPEN", kind |-> "roomList",
                                 recv |-> TRUE, room |-> NullRef]]
     IN Collect(W, rooms, heap, players, playerObj,
                MapSet(connections, ConnectionKey(Null, Null), c),
                roomListConnections \cup {c}, now,
                Ev("connectRoomList", c, "", "", NoMsg, 0, NullRef),
                sendRoomsList(NoSent, W, c))

ConnectRoomList(c) ==
  /\ Accepts(c)
  /\ LET W == [ws EXCEPT ![c] = [readyState |-> "OPEN", kind |-> "roomList",
                                 recv |-> TRUE, room |-> NullRef]]
     IN Collect(W, rooms, heap, players, playerObj, connections,
                roomListConnections \cup {c}, now,
                Ev("connectRoomList", c, "", "", NoMsg, 0, NullRef),
                sendRoomsList(NoSent, W, c))

(***************************************************************************)
(* wss.on('connection'): exactly one of room and name is present.          *)
(***************************************************************************)
ConnectMissingParams(c, roomId, playerName) ==
  /\ Accepts(c)
  /\ (roomId = "") # (playerName = "")
  /\ LET W == [ws EXCEPT ![c] = WsClose([NewSocket EXCEPT !.readyState = "OPEN"])]
     IN Collect(W, rooms, heap, players, playerObj, connections,
                roomListConnections, now,
                Ev("connectMissingParams", c, roomId, playerName, NoMsg, MISSING_PARAMS,
                   NullRef),
                NoSent)

(***************************************************************************)
(* wss.on('connection'): the key is registered to a socket that is open.   *)
(***************************************************************************)
\* a variant without the check: every registration is taken to be stale
IsDuplicate_NoCheck(roomId, playerName) == FALSE

IsDuplicate(roomId, playerName) ==
  /\ ConnectionKey(roomId, playerName) \in DOMAIN connections
  /\ ws[connections[ConnectionKey(roomId, playerName)]].readyState = "OPEN"

ConnectDuplicate(c, roomId, playerName) ==
  /\ Accepts(c)
  /\ IsDuplicate(roomId, playerName)
  /\ LET W == [ws EXCEPT ![c] = WsClose([NewSocket EXCEPT !.readyState = "OPEN"])]
     IN Collect(W, rooms, heap, players, playerObj, connections,
                roomListConnections, now,
                Ev("connectDuplicate", c, roomId, playerName, NoMsg, DUPLICATE_CONNECTION,
                   connections[ConnectionKey(roomId, playerName)]),
                NoSent)

(***************************************************************************)
(* wss.on('connection'): the join.  A stale registration of the key is     *)
(* dropped, the key is registered, the room is fetched or created, the     *)
(* player is appended, playerJoined is broadcast, the handlers are         *)
(* attached and a late joiner gets the gameStarted snapshot.               *)
(***************************************************************************)
\* new Deck() shuffles, and no card is drawn from that deck: startGame
\* resets it first.  One outcome of that shuffle is explored.
NewRoom(roomId, playerName) ==
  [id |-> roomId, players |-> << >>, deck |-> DeckReset(1), currentCard |-> NoCard,
   stage |-> Null, isGameStarted |-> FALSE, lastActivity |-> now,
   creator |-> playerName]

\* a variant without the filter
AddPlayer_NoFilter(list, PO, c, playerName) == Append(list, c)

\* a variant with unshift for push
AddPlayer_First(list, PO, c, playerName) ==
  << c >> \o SelectSeq(list, LAMBDA x : PO[x].name # playerName)

\* room.players.filter(p => p.name !== playerName), then push(player)
AddPlayer(list, PO, c, playerName) ==
  Append(SelectSeq(list, LAMBDA x : PO[x].name # playerName), c)

\* a variant in which every join sets the creator
JoinedRoom_NewCreator(roomId, playerName) ==
  IF roomId \in DOMAIN rooms
    THEN [heap[rooms[roomId]] EXCEPT !.lastActivity = now, !.creator = playerName]
    ELSE NewRoom(roomId, playerName)

\* the room the join works on: the stored one with lastActivity refreshed,
\* or a new one
JoinedRoom(roomId, playerName) ==
  IF roomId \in DOMAIN rooms
    THEN [heap[rooms[roomId]] EXCEPT !.lastActivity = now]
    ELSE NewRoom(roomId, playerName)

\* a variant without players.delete(existingWs)
StalePlayers_Kept(key) == players

\* players.delete(existingWs), when the key is registered (to a stale socket)
StalePlayers(key) ==
  IF key \in DOMAIN connections THEN players \ {connections[key]} ELSE players

\* a variant that sends the snapshot to the whole room
JoinSnapshot_ToRoom(S, W, c, room, PO) ==
  IF room.isGameStarted
    THEN Broadcast(S, W, room.players,
                   [type |-> "gameStarted", stage |-> room.stage,
                    currentCard |-> room.currentCard,
                    players |-> Projection(room.players, PO)])
    ELSE S

\* if (room.isGameStarted) ws.send({type: 'gameStarted', ...}): the snapshot
\* for a late joiner, after the playerJoined broadcast
JoinSnapshot(S, W, c, room, PO) ==
  IF room.isGameStarted
    THEN SendTo(S, W, c,
                [type |-> "gameStarted", stage |-> room.stage,
                 currentCard |-> room.currentCard,
                 players |-> Projection(room.players, PO)])
    ELSE S

ConnectJoin(c, roomId, playerName) ==
  /\ Accepts(c)
  /\ roomId # "" /\ playerName # ""
  /\ ~IsDuplicate(roomId, playerName)
  /\ LET key == ConnectionKey(roomId, playerName)
         stale == key \in DOMAIN connections
         old == IF stale THEN connections[key] ELSE NullRef
         P1 == StalePlayers(key)
         W1 == IF stale /\ ws[old].readyState # "CLOSED"
                 THEN [ws EXCEPT ![old] = WsClose(@)] ELSE ws
         CN == MapSet(MapDelete(connections, key), key, c)
         o == IF roomId \in DOMAIN rooms THEN rooms[roomId] ELSE c
         R == MapSet(rooms, roomId, o)
         PO == MapSet(playerObj, c, [name |-> playerName, score |-> 0, roomId |-> roomId])
         room0 == JoinedRoom(roomId, playerName)
         room1 == [room0 EXCEPT !.players = AddPlayer(@, PO, c, playerName),
                                !.lastActivity = now]
         W == [W1 EXCEPT ![c] = [readyState |-> "OPEN", kind |-> "player",
                                 recv |-> TRUE, room |-> o]]
         S1 == Broadcast(NoSent, W, room1.players,
                         [type |-> "playerJoined", playerName |-> playerName,
                          players |-> Projection(room1.players, PO)])
         S == JoinSnapshot(S1, W, c, room1, PO)
     IN Collect(W, R, MapSet(heap, o, room1), P1 \cup {c}, PO, CN,
                roomListConnections, now,
                Ev("connectJoin", c, roomId, playerName, NoMsg, 0, old), S)

(***************************************************************************)
(* handleGameOver(room): the winners, the gameOver broadcast, the reset.   *)
(* Results are the room after it and what was sent.                        *)
(***************************************************************************)
SetMax(xs) == CHOOSE x \in xs : \A y \in xs : y <= x

\* a variant that names one winner, the first with the best score
Winners_First(list, PO) ==
  LET scores == {PO[list[i]].score : i \in 1..Len(list)}
      proj == Projection(list, PO)
      won == SelectSeq(proj, LAMBDA p : scores # {} /\ p.score = SetMax(scores))
  IN  [i \in 1..(IF Len(won) > 0 THEN 1 ELSE 0) |-> won[i].name]

Winners(list, PO) ==
  LET scores == {PO[list[i]].score : i \in 1..Len(list)}
      proj == Projection(list, PO)
      won == SelectSeq(proj, LAMBDA p : scores # {} /\ p.score = SetMax(scores))
  IN  [i \in 1..Len(won) |-> won[i].name]

\* a variant without room.currentCard = null
GameOverRoom_KeepsCard(room) ==
  [room EXCEPT !.isGameStarted = FALSE, !.stage = Null, !.lastActivity = now]

GameOverRoom(room) ==
  [room EXCEPT !.isGameStarted = FALSE, !.stage = Null, !.currentCard = NoCard,
               !.lastActivity = now]

GameOverSent(S, W, room, PO) ==
  Broadcast(S, W, room.players,
            [type |-> "gameOver", winners |-> Winners(room.players, PO),
             scores |-> Projection(room.players, PO)])

(***************************************************************************)
(* ws.on('message') of a room participant.  The handler works on the Room  *)
(* and the Player its closure captured, whether or not they are still in   *)
(* the maps.  Each case gives the room, the player and the sends after it. *)
(***************************************************************************)
ErrorMsg(code) == [type |-> "error", code |-> code]

\* a variant without room.deck.reset()
StartGameRoom_NoReset(room, k) ==
  IF room.isGameStarted THEN room
  ELSE [room EXCEPT !.isGameStarted = TRUE,
                    !.deck = DrawRest(room.deck),
                    !.stage = "red_black",
                    !.currentCard = DrawCard(room.deck),
                    !.lastActivity = now]

StartGameRoom(room, k) ==
  IF room.isGameStarted THEN room
  ELSE [room EXCEPT !.isGameStarted = TRUE,
                    !.deck = DrawRest(DeckReset(k)),
                    !.stage = "red_black",
                    !.currentCard = DrawCard(DeckReset(k)),
                    !.lastActivity = now]

\* a variant that announces the running round again
StartGameSent_Again(S, W, room, k, PO) ==
  Broadcast(S, W, room.players,
            [type |-> "gameStarted",
             stage |-> IF room.isGameStarted THEN room.stage ELSE "red_black",
             currentCard |-> IF room.isGameStarted THEN room.currentCard
                             ELSE DrawCard(DeckReset(k)),
             players |-> Projection(room.players, PO)])

StartGameSent(S, W, room, k, PO) ==
  IF room.isGameStarted THEN S
  ELSE Broadcast(S, W, room.players,
                 [type |-> "gameStarted", stage |-> "red_black",
                  currentCard |-> DrawCard(DeckReset(k)),
                  players |-> Projection(room.players, PO)])

GuessActive(room) == room.isGameStarted /\ room.currentCard # NoCard

\* a variant that evaluates the guess whether or not a card was drawn
GuessCorrect_NoCard(room, guess) ==
  /\ GuessActive(room)
  /\ checkGuess(guess, room.currentCard, DrawCard(room.deck))

GuessCorrect(room, guess) ==
  /\ GuessActive(room)
  /\ DrawCard(room.deck) # NoCard
  /\ checkGuess(guess, room.currentCard, DrawCard(room.deck))

\* a variant that scores every guess of an active round
GuessPlayer_Always(room, player, guess) ==
  IF GuessActive(room) /\ DrawCard(room.deck) # NoCard
    THEN [player EXCEPT !.score = @ + 1] ELSE player

\* the Player of the sender after the guess
GuessPlayer(room, player, guess) ==
  IF GuessCorrect(room, guess) THEN [player EXCEPT !.score = @ + 1] ELSE player

\* a variant that leaves the card being guessed on in place
GuessAdvanced_SameCard(room) ==
  [room EXCEPT !.deck = DrawRest(@), !.stage = getNextStage(@), !.lastActivity = now]

\* the room after the draw, the new card and the new stage
GuessAdvanced(room) ==
  [room EXCEPT !.deck = DrawRest(@), !.currentCard = DrawCard(room.deck),
               !.stage = getNextStage(@), !.lastActivity = now]

\* a variant without the game over after the last stage
GuessRoom_NoGameOver(room) ==
  IF ~GuessActive(room) THEN room
  ELSE IF DrawCard(room.deck) = NoCard
         THEN GameOverRoom([room EXCEPT !.deck = DrawRest(@)])
  ELSE GuessAdvanced(room)

GuessRoom(room) ==
  IF ~GuessActive(room) THEN room
  ELSE IF DrawCard(room.deck) = NoCard
         THEN GameOverRoom([room EXCEPT !.deck = DrawRest(@)])
  ELSE IF GuessAdvanced(room).stage = Null THEN GameOverRoom(GuessAdvanced(room))
  ELSE GuessAdvanced(room)

\* a variant that runs the game over before it announces the result
GuessSent_GameOverFirst(S, W, c, room, PO, guess) ==
  IF ~GuessActive(room) THEN SendTo(S, W, c, ErrorMsg("GAME_NOT_ACTIVE"))
  ELSE IF DrawCard(room.deck) = NoCard THEN GameOverSent(S, W, room, PO)
  ELSE LET S0 == IF GuessAdvanced(room).stage = Null
                   THEN GameOverSent(S, W, GuessAdvanced(room), PO) ELSE S
       IN Broadcast(S0, W, room.players,
                    [type |-> "guessResult", playerName |-> PO[c].name,
                     score |-> PO[c].score,
                     isCorrect |-> GuessCorrect(room, guess),
                     nextStage |-> GuessAdvanced(room).stage,
                     currentCard |-> GuessAdvanced(room).currentCard])

\* a variant that tells the whole room of a guess out of turn
GuessSent_ErrorToRoom(S, W, c, room, PO, guess) ==
  IF ~GuessActive(room)
    THEN Broadcast(S, W, room.players, ErrorMsg("GAME_NOT_ACTIVE"))
  ELSE IF DrawCard(room.deck) = NoCard THEN GameOverSent(S, W, room, PO)
  ELSE LET S1 == Broadcast(S, W, room.players,
                           [type |-> "guessResult", playerName |-> PO[c].name,
                            score |-> PO[c].score,
                            isCorrect |-> GuessCorrect(room, guess),
                            nextStage |-> GuessAdvanced(room).stage,
                            currentCard |-> GuessAdvanced(room).currentCard])
       IN IF GuessAdvanced(room).stage = Null
            THEN GameOverSent(S1, W, GuessAdvanced(room), PO) ELSE S1

GuessSent(S, W, c, room, PO, guess) ==
  IF ~GuessActive(room) THEN SendTo(S, W, c, ErrorMsg("GAME_NOT_ACTIVE"))
  ELSE IF DrawCard(room.deck) = NoCard THEN GameOverSent(S, W, room, PO)
  ELSE LET S1 == Broadcast(S, W, room.players,
                           [type |-> "guessResult", playerName |-> PO[c].name,
                            score |-> PO[c].score,
                            isCorrect |-> GuessCorrect(room, guess),
                            nextStage |-> GuessAdvanced(room).stage,
                            currentCard |-> GuessAdvanced(room).currentCard])
       IN IF GuessAdvanced(room).stage = Null
            THEN GameOverSent(S1, W, GuessAdvanced(room), PO) ELSE S1

\* a variant that sends the state to the whole room
GetStateSent_Broadcast(S, W, c, room, PO) ==
  Broadcast(S, W, room.players,
            [type |-> IF room.isGameStarted THEN "gameStarted" ELSE "waitingToStart",
             stage |-> room.stage, currentCard |-> room.currentCard,
             players |-> Projection(room.players, PO),
             isGameStarted |-> room.isGameStarted])

GetStateSent(S, W, c, room, PO) ==
  SendTo(S, W, c,
         [type |-> IF room.isGameStarted THEN "gameStarted" ELSE "waitingToStart",
          stage |-> room.stage, currentCard |-> room.currentCard,
          players |-> Projection(room.players, PO),
          isGameStarted |-> room.isGameStarted])

\* a variant that reports the error to every open socket
ParseErrorSent_ToAll(S, W, c) ==
  [d \in Conns |->
     IF W[d].readyState = "OPEN"
       THEN Append(S[d], ErrorMsg("MESSAGE_PARSE_ERROR")) ELSE S[d]]

\* the catch of the message handler
ParseErrorSent(S, W, c) == SendTo(S, W, c, ErrorMsg("MESSAGE_PARSE_ERROR"))

RoomNotFoundSent(S, W, c) == SendTo(S, W, c, ErrorMsg("ROOM_NOT_FOUND"))

Message(c, m, k) ==
  /\ ws[c].kind = "player" /\ ws[c].recv
  /\ (m.type = "startGame" /\ ~heap[ws[c].room].isGameStarted) \/ k = 1
  /\ m.type = "guess" /\ GuessCorrect(heap[ws[c].room], m.guess)
       => playerObj[c].score < MaxScore
  /\ LET o == ws[c].room
         \* JSON.parse threw: the catch block answers, nothing else ran
         parsed == m.type # "malformed"
         \* if (room) room.lastActivity = Date.now()
         room0 == IF parsed /\ o # NullRef
                    THEN [heap[o] EXCEPT !.lastActivity = now] ELSE heap[o]
         room1 == CASE ~parsed -> room0
                    [] o = NullRef -> room0
                    [] m.type = "startGame" -> StartGameRoom(room0, k)
                    [] m.type = "guess" -> GuessRoom(room0)
                    [] OTHER -> room0
         PO == IF parsed /\ o # NullRef /\ m.type = "guess"
                 THEN [playerObj EXCEPT ![c] = GuessPlayer(room0, @, m.guess)]
                 ELSE playerObj
         S == CASE ~parsed -> ParseErrorSent(NoSent, ws, c)
                [] m.type = "ping" -> SendTo(NoSent, ws, c, [type |-> "pong"])
                [] m.type \in {"startGame", "guess", "getState"} /\ o = NullRef ->
                     RoomNotFoundSent(NoSent, ws, c)
                [] m.type = "startGame" -> StartGameSent(NoSent, ws, room0, k, PO)
                [] m.type = "guess" -> GuessSent(NoSent, ws, c, room0, PO, m.guess)
                [] m.type = "getState" -> GetStateSent(NoSent, ws, c, room0, PO)
                [] OTHER -> NoSent
     IN Collect(ws, rooms, IF o = NullRef THEN heap ELSE [heap EXCEPT ![o] = room1],
                players, PO, connections, roomListConnections, now,
                Ev("message", c, playerObj[c].roomId, playerObj[c].name, m, 0, NullRef), S)

(***************************************************************************)
(* ws.on('message') of a directory listener: ping and getRooms are         *)
(* answered, everything else (and a parse failure) is dropped.             *)
(***************************************************************************)
MessageRoomList(c, m) ==
  /\ ws[c].kind = "roomList" /\ ws[c].recv
  /\ LET S == CASE m.type = "ping" -> SendTo(NoSent, ws, c, [type |-> "pong"])
                [] m.type = "getRooms" -> sendRoomsList(NoSent, ws, c)
                [] OTHER -> NoSent
     IN Collect(ws, rooms, heap, players, playerObj, connections,
                roomListConnections, now,
                Ev("messageRoomList", c, "", "", m, 0, NullRef), S)

(***************************************************************************)
(* setInterval(sendRoomsList, 1000) of a directory listener; the interval  *)
(* runs until the listener's 'close' handler clears it.                    *)
(***************************************************************************)
RoomListInterval(c) ==
  /\ c \in roomListConnections
  /\ Collect(ws, rooms, heap, players, playerObj, connections,
             roomListConnections, now,
             Ev("roomListInterval", c, "", "", NoMsg, 0, NullRef),
             sendRoomsList(NoSent, ws, c))

(***************************************************************************)
(* handlePlayerDisconnect(ws): the maps, the heap and the sends after it.  *)
(***************************************************************************)
\* a variant that goes by the Player object, whether or not the map has it
DisconnectKnown_Object(c) == c \in DOMAIN playerObj

DisconnectKnown(c) == c \in players

DisconnectRoomFound(c) == DisconnectKnown(c) /\ playerObj[c].roomId \in DOMAIN rooms

\* a variant that leaves the player in the list
DisconnectList_Kept(c) == heap[rooms[playerObj[c].roomId]].players

DisconnectList(c) ==
  SelectSeq(heap[rooms[playerObj[c].roomId]].players, LAMBDA x : x # c)

DisconnectPlayers(c) == players \ {c}

DisconnectConnections(c) ==
  IF DisconnectKnown(c)
    THEN MapDelete(connections, ConnectionKey(playerObj[c].roomId, playerObj[c].name))
    ELSE connections

\* a variant that leaves the empty room in the Room Store
DisconnectRooms_Kept(c) == rooms

DisconnectRooms(c) ==
  IF DisconnectRoomFound(c) /\ Len(DisconnectList(c)) = 0
    THEN MapDelete(rooms, playerObj[c].roomId) ELSE rooms

DisconnectHeap(c) ==
  IF ~DisconnectRoomFound(c) THEN heap
  ELSE [heap EXCEPT ![rooms[playerObj[c].roomId]] =
          [@ EXCEPT !.players = DisconnectList(c),
                    !.lastActivity = IF Len(DisconnectList(c)) = 0 THEN @ ELSE now]]

DisconnectSent(W, c) ==
  IF DisconnectRoomFound(c) /\ Len(DisconnectList(c)) # 0
    THEN Broadcast(NoSent, W, DisconnectList(c),
                   [type |-> "playerLeft", playerName |-> playerObj[c].name,
                    players |-> Projection(DisconnectList(c), playerObj)])
    ELSE NoSent

handlePlayerDisconnect(W, c, E) ==
  Collect(W, DisconnectRooms(c), DisconnectHeap(c), DisconnectPlayers(c), playerObj,
          DisconnectConnections(c), roomListConnections, now, E, DisconnectSent(W, c))

(***************************************************************************)
(* The transport.  PeerClosing: the peer's close frame arrives or the      *)
(* socket fails; the socket is CLOSING and delivers no more messages; no   *)
(* handler of the server runs yet.                                         *)
(***************************************************************************)
PeerClosing(c) ==
  /\ ws[c].kind \in {"player", "roomList"}
  /\ ws[c].readyState = "OPEN"
  /\ Collect([ws EXCEPT ![c] = [@ EXCEPT !.readyState = "CLOSING", !.recv = FALSE]],
             rooms, heap, players, playerObj, connections, roomListConnections, now,
             Ev("peerClosing", c, "", "", NoMsg, 0, NullRef), NoSent)

(***************************************************************************)
(* ws.on('error') of a room participant: the receiver failed; the library  *)
(* has started the close before it emits the event.                        *)
(***************************************************************************)
ErrorEvent(c) ==
  /\ ws[c].kind = "player" /\ ws[c].recv
  /\ handlePlayerDisconnect(
       [ws EXCEPT ![c] = [@ EXCEPT !.readyState = "CLOSING", !.recv = FALSE]], c,
       Ev("error", c, "", "", NoMsg, INTERNAL_ERROR, NullRef))

(***************************************************************************)
(* ws.on('close') of a room participant.                                   *)
(***************************************************************************)
CloseEvent(c) ==
  /\ ws[c].kind = "player"
  /\ ws[c].readyState \in {"OPEN", "CLOSING"}
  /\ handlePlayerDisconnect(
       [ws EXCEPT ![c] = [@ EXCEPT !.readyState = "CLOSED", !.recv = FALSE]], c,
       Ev("close", c, "", "", NoMsg, 0, NullRef))

(***************************************************************************)
(* ws.on('close') of a directory listener.                                 *)
(***************************************************************************)
CloseRoomList(c) ==
  /\ ws[c].kind = "roomList"
  /\ ws[c].readyState \in {"OPEN", "CLOSING"}
  /\ Collect([ws EXCEPT ![c] = [@ EXCEPT !.readyState = "CLOSED", !.recv = FALSE]],
             rooms, heap, players, playerObj, connections,
             roomListConnections \ {c}, now,
             Ev("closeRoomList", c, "", "", NoMsg, 0, NullRef), NoSent)

(***************************************************************************)
(* The cleanup interval: every room idle for more than ROOM_TIMEOUT is     *)
(* told roomClosed, its sockets are closed with INVALID_ROOM, its players  *)
(* leave the maps and the room leaves the Room Store.                      *)
(***************************************************************************)
IsIdle(room) == now - room.lastActivity > ROOM_TIMEOUT

\* a variant that takes every room for idle
IdleRooms_All == DOMAIN rooms

IdleRooms == {r \in DOMAIN rooms : IsIdle(heap[rooms[r]])}

\* the sockets in the player lists of the rooms being removed
IdleSockets == {c \in Conns : \E r \in IdleRooms : InSeq(c, heap[rooms[r]].players)}

\* a variant that closes the sockets before it tells them
CleanupSent_AfterClose ==
  [c \in Conns |->
     IF c \in IdleSockets /\ WsClose(ws[c]).readyState = "OPEN"
       THEN << [type |-> "roomClosed", reason |-> "Room closed due to inactivity"] >>
       ELSE << >>]

CleanupSent ==
  [c \in Conns |->
     IF c \in IdleSockets /\ ws[c].readyState = "OPEN"
       THEN << [type |-> "roomClosed", reason |-> "Room closed due to inactivity"] >>
       ELSE << >>]

CleanupConnections ==
  LET keys == {ConnectionKey(playerObj[c].roomId, playerObj[c].name) : c \in IdleSockets}
  IN  [x \in DOMAIN connections \ keys |-> connections[x]]

CleanupInterval ==
  Collect([c \in Conns |-> IF c \in IdleSockets THEN WsClose(ws[c]) ELSE ws[c]],
          [r \in DOMAIN rooms \ IdleRooms |-> rooms[r]],
          [o \in DOMAIN heap |->
             IF \E r \in IdleRooms : rooms[r] = o
               THEN [heap[o] EXCEPT !.lastActivity = now] ELSE heap[o]],
          players \ IdleSockets, playerObj, CleanupConnections,
          roomListConnections, now,
          Ev("cleanup", NullRef, "", "", NoMsg, INVALID_ROOM, NullRef), CleanupSent)

(***************************************************************************)
(* The clock.                                                              *)
(***************************************************************************)
Tick(d) ==
  /\ now < MaxTicks * ROOM_TIMEOUT
  /\ Collect(ws, rooms, heap, players, playerObj, connections, roomListConnections,
             now + d, Ev("tick", NullRef, "", "", NoMsg, 0, NullRef), NoSent)

(***************************************************************************)
(* The next-state relation, by handler group and by the inputs the         *)
(* environment supplies: ids are the (room, name) pairs requested, msgs    *)
(* the payloads the participants send.                                     *)
(***************************************************************************)
Admission(ids) ==
  \/ \E c \in Conns, p \in HalfIdentities : ConnectMissingParams(c, p[1], p[2])
  \/ \E c \in Conns, p \in ids : ConnectDuplicate(c, p[1], p[2])
  \/ \E c \in Conns, p \in ids : ConnectJoin(c, p[1], p[2])

Participant(msgs) ==
  \/ \E c \in Conns, m \in msgs, k \in 1..NumShuffles : Message(c, m, k)
  \/ \E c \in Conns : PeerClosing(c)
  \/ \E c \in Conns : ErrorEvent(c)
  \/ \E c \in Conns : CloseEvent(c)

Directory ==
  \/ \E c \in Conns : ConnectRoomList(c)
  \/ \E c \in Conns, m \in RoomListMessages : MessageRoomList(c, m)
  \/ \E c \in Conns : RoomListInterval(c)
  \/ \E c \in Conns : CloseRoomList(c)

Timers ==
  \/ CleanupInterval
  \/ \E d \in {ROOM_TIMEOUT, ROOM_TIMEOUT + 1} : Tick(d)

\* The server with every input.
Next == Admission(Identities) \/ Participant(Messages) \/ Directory \/ Timers

Spec == Init /\ [][Next]_vars

(***************************************************************************)
(* The same server under three narrower environments, each small enough to *)
(* explore in full.                                                        *)
(***************************************************************************)
\* One room, two names, every payload; no listener, the clock stands still.
OneRoom == { <<"a", "c">>, <<"a", "b:c">> }

NextGame == Admission(OneRoom) \/ Participant(Messages)

SpecGame == Init /\ [][NextGame]_vars

\* Every identity and the directory listeners; the participants play with
\* one guess token; the clock stands still.
LobbyMessages ==
  {[type |-> "startGame", guess |-> ""], [type |-> "guess", guess |-> "outside"]}

NextLobby == Admission(Identities) \/ Participant(LobbyMessages) \/ Directory

SpecLobby == Init /\ [][NextLobby]_vars

\* Two rooms and the clock; the participants ping, start a game, and send
\* payloads that do not parse or that the switch does not know.
TwoRooms == { <<"a", "c">>, <<"a:b", "c">> }

IdleMessages ==
  {[type |-> t, guess |-> ""] : t \in {"ping", "startGame", "unknown", "malformed"}}

NextIdle == Admission(TwoRooms) \/ Participant(IdleMessages) \/ Timers

SpecIdle == Init /\ [][NextIdle]_vars

\* setInterval runs the cleanup again and again for as long as the server
\* lives
SpecIdleFair == SpecIdle /\ WF_vars(CleanupInterval)

\* Two rooms and the timers again, for two identities whose registry keys
\* are the same string: `${"a"}:${"b:c"}` and `${"a:b"}:${"c"}`.
SameKey == { <<"a", "b:c">>, <<"a:b", "c">> }

NextSameKey == Admission(SameKey) \/ Participant(IdleMessages) \/ Timers

SpecSameKey == Init /\ [][NextSameKey]_vars

\* Two rooms side by side, with a message of every known type, a payload
\* that does not parse, and the timers.
RoomsMessages ==
  {[type |-> t, guess |-> ""] : t \in {"ping", "startGame", "getState", "malformed"}}
  \cup {[type |-> "guess", guess |-> "red"]}

NextRooms == Admission(TwoRooms) \/ Participant(RoomsMessages) \/ Timers

SpecRooms == Init /\ [][NextRooms]_vars

(***************************************************************************)
(* The 'message' handler as a function of the Room it finds.  The server   *)
(* never takes a deck below 47 cards, so the branch of the guess case for  *)
(* an empty deck is exercised here on Rooms given to the handler: a room   *)
(* of two open players in a round, at any stage, with 0 to MaxLeft cards   *)
(* left in its deck.                                                       *)
(***************************************************************************)
MaxLeft == 2

HandlerRoom(left, stage, card) ==
  [id |-> "a", players |-> << 1, 2 >>, deck |-> [order |-> 1, length |-> left],
   currentCard |-> card, stage |-> stage, isGameStarted |-> TRUE,
   lastActivity |-> 0, creator |-> "c"]

InitHandler ==
  /\ MaxConn >= 2
  /\ ws = [c \in Conns |->
             IF c <= 2 THEN [readyState |-> "OPEN", kind |-> "player",
                             recv |-> TRUE, room |-> 1]
             ELSE NewSocket]
  /\ rooms = MapSet(EmptyMap, "a", 1)
  /\ \E left \in 0..MaxLeft, stage \in Stages,
        card \in {Card("hearts", 7), Card("spades", 9)} :
        heap = << HandlerRoom(left, stage, card) >>
  /\ players = {1, 2}
  /\ \E s1, s2 \in 0..MaxScore :
        playerObj = << [name |-> "c", score |-> s1, roomId |-> "a"],
                      [name |-> "b:c", score |-> s2, roomId |-> "a"] >>
  /\ connections = MapSet(MapSet(EmptyMap, ConnectionKey("a", "c"), 1),
                          ConnectionKey("a", "b:c"), 2)
  /\ roomListConnections = {}
  /\ now = 0
  /\ ev = Ev("init", NullRef, "", "", NoMsg, 0, NullRef)
  /\ sent = NoSent
  /\ client = NoClient

NextHandler == \E c \in Conns, m \in Messages, k \in 1..NumShuffles : Message(c, m, k)

SpecHandler == InitHandler /\ [][NextHandler]_vars

(***************************************************************************)
(* GamePage: connect() and the handlers it gives its socket.  The page is  *)
(* followed on its own; the server's variables stand still.                *)
(***************************************************************************)
MaxRetry == 6

RETRY_LIMIT == 5     \* retryCount < 5

\* the codes a socket of the page is closed with: by the server, by the
\* page itself (1000), by the transport (1006), by some other application
CloseCodes ==
  {NORMAL_CLOSURE, GOING_AWAY, 1006, MISSING_PARAMS, DUPLICATE_CONNECTION,
   INVALID_ROOM, INTERNAL_ERROR, 4004}

ServerStill ==
  UNCHANGED << ws, rooms, heap, players, playerObj, connections,
               roomListConnections, now, ev, sent >>

\* connect(): skipped while a socket is open or being opened; otherwise the
\* error is cleared and a socket is created.  Its handlers see the
\* retryCount of the render that made this connect, which may be older than
\* the current one.
ClientConnect ==
  /\ client.mounted
  /\ client.socket \in {"none", "closed"}
  /\ client.op \in {"", "retry"}
  /\ \E seen \in 0..client.retryCount :
       client' = [client EXCEPT !.socket = "connecting", !.error = "",
                                !.seen = seen, !.op = "connect"]
  /\ ServerStill

\* newWs.onopen
ClientOpen ==
  /\ client.socket = "connecting"
  /\ client' = IF client.mounted
                 THEN [client EXCEPT !.socket = "open", !.retryCount = 0,
                                     !.reconnect = FALSE, !.op = "onopen"]
                 ELSE [client EXCEPT !.socket = "open", !.op = "onopen"]
  /\ ServerStill

\* the switch of newWs.onclose on event.code
CloseErrorMessage(code) ==
  CASE code = NORMAL_CLOSURE -> ""
    [] code = MISSING_PARAMS -> "Missing room ID or player name"
    [] code = DUPLICATE_CONNECTION ->
         "You're already connected to this room in another window"
    [] code = INVALID_ROOM -> "The room no longer exists"
    [] code = INTERNAL_ERROR -> "Server error occurred"
    [] code >= 4000 -> "Application error"
    [] code >= 1002 -> "Connection error"
    [] OTHER -> ""

\* newWs.onclose: the message of the code is shown, if there is one; with
\* no message a reconnect is scheduled, up to the retry limit
ClientClose(code) ==
  /\ client.socket \in {"connecting", "open"}
  /\ client' =
       IF ~client.mounted
         THEN [client EXCEPT !.socket = "closed", !.op = "onclose", !.code = code]
       ELSE IF CloseErrorMessage(code) # ""
         THEN [client EXCEPT !.socket = "closed", !.op = "onclose", !.code = code,
                             !.error = CloseErrorMessage(code)]
       ELSE IF client.seen < RETRY_LIMIT
         THEN [client EXCEPT !.socket = "closed", !.op = "onclose", !.code = code,
                             !.reconnect = TRUE]
       ELSE [client EXCEPT !.socket = "closed", !.op = "onclose", !.code = code,
                           !.error = "Unable to connect to server after multiple attempts. Please refresh the page."]
  /\ ServerStill

\* the reconnect timeout fires: setRetryCount(prev => prev + 1); connect()
ClientRetry ==
  /\ client.reconnect
  /\ client.socket = "closed"
  /\ client.retryCount < MaxRetry
  /\ client' = IF client.mounted
                 THEN [client EXCEPT !.reconnect = FALSE, !.retryCount = @ + 1,
                                     !.op = "retry"]
                 ELSE [client EXCEPT !.reconnect = FALSE, !.op = "retry"]
  /\ ServerStill

\* the cleanup of the effect: mountedRef.current = false, clearTimeout
ClientUnmount ==
  /\ client.mounted
  /\ client' = [client EXCEPT !.mounted = FALSE, !.reconnect = FALSE,
                              !.op = "unmount"]
  /\ ServerStill

NextClient ==
  \/ ClientConnect
  \/ ClientOpen
  \/ \E code \in CloseCodes : ClientClose(code)
  \/ ClientRetry
  \/ ClientUnmount

SpecClient == Init /\ [][NextClient]_vars

\* ---------------------------------------------------------------------------
\* Properties
\* ---------------------------------------------------------------------------

\* rooms.get(roomId)
StoredRoom(roomId) == heap[rooms[roomId]]

\* the names on a room's player list, in join order
ListedNames(room) == [i \in 1..Len(room.players) |-> playerObj[room.players[i]].name]

\* C1: a room of the store that is not in a round (isGameStarted = false)
\* has no current card and no stage.
C1_WaitingRoomHasNoCardNoStage ==
  \A r \in DOMAIN rooms :
    ~StoredRoom(r).isGameStarted =>
      StoredRoom(r).currentCard = NoCard /\ StoredRoom(r).stage = Null

\* a round has been played to its end: the last guess was answered with
\* gameOver and the room waits again with cards gone from its deck
C1_Witness ==
  /\ ev.op = "message" /\ ev.msg.type = "guess"
  /\ \E i \in 1..Len(sent[ev.c]) : sent[ev.c][i].type = "gameOver"
  /\ \E r \in DOMAIN rooms :
       /\ InSeq(ev.c, StoredRoom(r).players)
       /\ ~StoredRoom(r).isGameStarted
       /\ StoredRoom(r).deck.length < DECK_SIZE

\* C2: a room of the store that is in a round (isGameStarted = true) has a
\* current card and one of the four stages; hence a card is showing exactly
\* when a round is in progress.
C2_StartedRoomHasCardAndStage ==
  \A r \in DOMAIN rooms :
    /\ StoredRoom(r).isGameStarted =>
         StoredRoom(r).currentCard # NoCard /\ StoredRoom(r).stage \in Stages
    /\ (StoredRoom(r).currentCard # NoCard) <=> StoredRoom(r).isGameStarted

\* a round has advanced to its last stage by guesses
C2_Witness ==
  /\ ev.op = "message" /\ ev.msg.type = "guess"
  /\ \E r \in DOMAIN rooms :
       /\ InSeq(ev.c, StoredRoom(r).players)
       /\ StoredRoom(r).isGameStarted
       /\ StoredRoom(r).stage = "suit"

\* C3: the registry maps key(r, n) to connection c exactly when room r of
\* the store lists a player named n bound to c and c is in the
\* connection-to-player map.
C3_RegistryAgreesWithRooms ==
  /\ \A key \in DOMAIN connections :
       LET c == connections[key]
       IN /\ c \in players
          /\ \E r \in DOMAIN rooms :
               /\ InSeq(c, StoredRoom(r).players)
               /\ ConnectionKey(r, playerObj[c].name) = key
  /\ \A r \in DOMAIN rooms :
       \A i \in 1..Len(StoredRoom(r).players) :
         LET c == StoredRoom(r).players[i]
             key == ConnectionKey(r, playerObj[c].name)
         IN /\ c \in players
            /\ key \in DOMAIN connections
            /\ connections[key] = c
  /\ \A c \in players :
       \E r \in DOMAIN rooms : InSeq(c, StoredRoom(r).players)

\* C4: no room's player list holds two players of one name (nor one
\* connection twice), and no connection is on the list of two rooms.
C4_UniqueNamesOneRoom ==
  /\ \A r \in DOMAIN rooms :
       \A i, j \in 1..Len(StoredRoom(r).players) :
         i # j => /\ ListedNames(StoredRoom(r))[i] # ListedNames(StoredRoom(r))[j]
                  /\ StoredRoom(r).players[i] # StoredRoom(r).players[j]
  /\ \A c \in Conns :
       Cardinality({r \in DOMAIN rooms : InSeq(c, StoredRoom(r).players)}) <= 1
  /\ \A r \in DOMAIN rooms :
       \A i \in 1..Len(StoredRoom(r).players) :
         playerObj[StoredRoom(r).players[i]].roomId = r

\* a second player of another name has joined a room
C4_Witness ==
  /\ ev.op = "connectJoin"
  /\ Len(StoredRoom(ev.roomId).players) = 2
  /\ ListedNames(StoredRoom(ev.roomId))[2] = ev.name

\* the step is a connection request for a room and a name, whatever the
\* server made of it
Attempt(e) == e.op \in {"connectDuplicate", "connectJoin"}

\* the registry holds an open connection of the player named n of room r
OpenRegistered(r, n) ==
  /\ ConnectionKey(r, n) \in DOMAIN connections
  /\ ws[connections[ConnectionKey(r, n)]].readyState = "OPEN"
  /\ playerObj[connections[ConnectionKey(r, n)]].roomId = r
  /\ playerObj[connections[ConnectionKey(r, n)]].name = n

\* the registry holds a connection of the player named n of room r that is
\* no longer open
StaleRegistered(r, n) ==
  /\ ConnectionKey(r, n) \in DOMAIN connections
  /\ ws[connections[ConnectionKey(r, n)]].readyState \in {"CLOSING", "CLOSED"}
  /\ playerObj[connections[ConnectionKey(r, n)]].roomId = r
  /\ playerObj[connections[ConnectionKey(r, n)]].name = n

\* C5: a connection request for (r, n) made while the registered connection
\* of (r, n) is open is closed with DuplicateConnection (4001); the registered
\* connection stays open, registered and processing messages, and the
\* registry, the room and the scores are as before.
C5_DuplicateRejected ==
  [][(Attempt(ev') /\ OpenRegistered(ev'.roomId, ev'.name)) =>
       /\ ev'.op = "connectDuplicate"
       /\ ev'.code = 4001 /\ ev'.code = DUPLICATE_CONNECTION
       /\ ws'[ev'.c].readyState # "OPEN"
       /\ ev'.c \notin players'
       /\ ws'[ev'.other] = ws[ev'.other]
       /\ ws'[ev'.other].recv
       /\ connections'[ConnectionKey(ev'.roomId, ev'.name)] = ev'.other
       /\ UNCHANGED << rooms, heap, players, playerObj, connections >>
       /\ sent' = NoSent]_vars

\* a request was rejected as a duplicate of the open connection of the same
\* player of the same room
C5_Witness ==
  /\ ev.op = "connectDuplicate" /\ ev.code = DUPLICATE_CONNECTION
  /\ ws[ev.other].readyState = "OPEN"
  /\ playerObj[ev.other].roomId = ev.roomId
  /\ playerObj[ev.other].name = ev.name
  /\ InSeq(ev.other, StoredRoom(ev.roomId).players)

\* C6: a connection request for (r, n) made while the registered connection
\* of (r, n) is closing or closed evicts that connection from the registry,
\* the connection-to-player map and the room's list; afterwards the key maps
\* to the new connection and room r lists exactly one player named n, bound
\* to the new connection.
C6_StaleReplaced ==
  [][(Attempt(ev') /\ StaleRegistered(ev'.roomId, ev'.name)) =>
       LET old == connections[ConnectionKey(ev'.roomId, ev'.name)]
           list == heap'[rooms'[ev'.roomId]].players
       IN /\ ev'.op = "connectJoin" /\ ev'.other = old
          /\ connections'[ConnectionKey(ev'.roomId, ev'.name)] = ev'.c
          /\ \A key \in DOMAIN connections' : connections'[key] # old
          /\ old \notin players'
          /\ ws'[old].readyState # "OPEN"
          /\ ~InSeq(old, list)
          /\ Cardinality({i \in 1..Len(list) :
                            playerObj'[list[i]].name = ev'.name}) = 1
          /\ \A i \in 1..Len(list) :
               playerObj'[list[i]].name = ev'.name => list[i] = ev'.c
          /\ ev'.c \in players' /\ ws'[ev'.c].readyState = "OPEN"]_vars

\* a join has replaced a stale connection; the key "a:c" is the key of one
\* identity only, so the replaced connection was the same player's
C6_Witness ==
  /\ ev.op = "connectJoin" /\ ev.other # NullRef
  /\ ev.roomId = "a" /\ ev.name = "c"
  /\ connections[ConnectionKey("a", "c")] = ev.c

\* the step is a connection request that carries a room or a name
Request(e) == e.op \in {"connectMissingParams", "connectDuplicate", "connectJoin"}

\* C7: a connection request carrying exactly one of room and name is closed
\* at once with MissingParameters (4000), a code distinct from 4001, 4002,
\* 4003, 1000 and 1001; it creates or changes no room, player or registry
\* entry, and nothing is sent.
C7_MissingParamsRejected ==
  [][(Request(ev') /\ ((ev'.roomId = "") # (ev'.name = ""))) =>
       /\ ev'.op = "connectMissingParams"
       /\ ev'.code = 4000 /\ ev'.code = MISSING_PARAMS
       /\ ev'.code \notin {DUPLICATE_CONNECTION, INVALID_ROOM, INTERNAL_ERROR,
                           NORMAL_CLOSURE, GOING_AWAY}
       /\ {DUPLICATE_CONNECTION, INVALID_ROOM, INTERNAL_ERROR,
           NORMAL_CLOSURE, GOING_AWAY} = {4001, 4002, 4003, 1000, 1001}
       /\ ws'[ev'.c].readyState # "OPEN"
       /\ ev'.c \notin players' \cup roomListConnections'
       /\ UNCHANGED << rooms, heap, players, playerObj, connections,
                       roomListConnections >>
       /\ sent' = NoSent]_vars

\* a request with a room and no name was rejected while a room with a player
\* existed
C7_Witness ==
  /\ ev.op = "connectMissingParams" /\ ev.code = MISSING_PARAMS
  /\ ev.roomId # "" /\ ev.name = ""
  /\ ev.roomId \in DOMAIN rooms
  /\ players # {}

\* the step is one of a directory listener: its connection, a message of
\* it, its periodic refresh, or its close
ListenerStep(e) ==
  e.op \in {"connectRoomList", "messageRoomList", "roomListInterval", "closeRoomList"}

\* no directory listener is registered, mapped to a player, or listed by a
\* room (of the store or not)
ListenersApart ==
  \A c \in Conns :
    (c \in roomListConnections \/ ws[c].kind = "roomList") =>
      /\ c \notin players
      /\ \A key \in DOMAIN connections : connections[key] # c
      /\ \A o \in DOMAIN heap : ~InSeq(c, heap[o].players)

\* C8: a directory listener is never in the registry, the
\* connection-to-player map or a room's player list; its connection creates
\* no room, and no step of it (a startGame, guess or getState message
\* included) changes a room, a player or the registry.
C8_ListenerChangesNothing ==
  [][/\ ListenersApart'
     /\ ListenerStep(ev') =>
          UNCHANGED << rooms, heap, players, playerObj, connections >>]_vars

\* a listener has sent startGame while a room with a player existed
C8_Witness ==
  /\ ev.op = "messageRoomList" /\ ev.msg.type = "startGame"
  /\ ev.c \in roomListConnections
  /\ \E r \in DOMAIN rooms : Len(StoredRoom(r).players) > 0

\* C9: a room is created with no stage, not started, no current card, a full
\* deck of 52 distinct cards and the joiner as its creator; the creator of a
\* room in the store never changes afterwards, whoever joins or leaves.
C9_NewRoomAndCreator ==
  [][/\ (ev'.op = "connectJoin" /\ ev'.roomId \notin DOMAIN rooms) =>
          /\ ev'.roomId \in DOMAIN rooms'
          /\ heap'[rooms'[ev'.roomId]].stage = Null
          /\ ~heap'[rooms'[ev'.roomId]].isGameStarted
          /\ heap'[rooms'[ev'.roomId]].currentCard = NoCard
          /\ Len(Cards(heap'[rooms'[ev'.roomId]].deck)) = 52
          /\ Cardinality({Cards(heap'[rooms'[ev'.roomId]].deck)[i] : i \in 1..52}) = 52
          /\ heap'[rooms'[ev'.roomId]].creator = ev'.name
          /\ heap'[rooms'[ev'.roomId]].id = ev'.roomId
     /\ \A r \in DOMAIN rooms \cap DOMAIN rooms' :
          heap'[rooms'[r]].creator = heap[rooms[r]].creator]_vars

\* a player has joined a room whose creator is no longer in it
C9_Witness ==
  /\ ev.op = "connectJoin"
  /\ StoredRoom(ev.roomId).creator # ev.name
  /\ \A i \in 1..Len(StoredRoom(ev.roomId).players) :
       ListedNames(StoredRoom(ev.roomId))[i] # StoredRoom(ev.roomId).creator

\* C10: after an admitted join under name n the room lists exactly one player
\* named n, with score 0, last in join order; playerJoined with the updated
\* list is sent to every open connection of the room, the joiner included;
\* the other players keep their order and their scores.
C10_JoinAppendsAndAnnounces ==
  [][ev'.op = "connectJoin" =>
       LET list == heap'[rooms'[ev'.roomId]].players
           others == SelectSeq(list, LAMBDA x : x # ev'.c)
           joined == [type |-> "playerJoined", playerName |-> ev'.name,
                      players |-> Projection(list, playerObj')]
       IN /\ Len(list) > 0 /\ list[Len(list)] = ev'.c
          /\ playerObj'[ev'.c] = [name |-> ev'.name, score |-> 0,
                                  roomId |-> ev'.roomId]
          /\ Cardinality({i \in 1..Len(list) :
                            playerObj'[list[i]].name = ev'.name}) = 1
          /\ ws'[ev'.c].readyState = "OPEN"
          /\ \A d \in Conns :
               (InSeq(d, list) /\ ws'[d].readyState = "OPEN") =>
                 Len(sent'[d]) > 0 /\ sent'[d][1] = joined
          /\ \A d \in Conns :
               InSeq(d, others) => playerObj'[d] = playerObj[d]
          /\ ev'.roomId \in DOMAIN rooms =>
               others = SelectSeq(heap[rooms[ev'.roomId]].players,
                                  LAMBDA x : playerObj[x].name # ev'.name)]_vars

\* a player has joined a room in which another player has scored
C10_Witness ==
  /\ ev.op = "connectJoin"
  /\ Len(StoredRoom(ev.roomId).players) = 2
  /\ StoredRoom(ev.roomId).players[2] = ev.c
  /\ playerObj[StoredRoom(ev.roomId).players[1]].score > 0
  /\ Len(sent[StoredRoom(ev.roomId).players[1]]) > 0

\* the gameStarted snapshot of a room
Snapshot(room, PO) ==
  [type |-> "gameStarted", stage |-> room.stage, currentCard |-> room.currentCard,
   players |-> Projection(room.players, PO)]

\* C11: a join into a started room sends the joiner, and nobody else, a
\* gameStarted snapshot (stage, current card, players) after playerJoined,
\* and changes neither stage, current card, deck nor an existing score; a
\* join into a room that is not started sends no snapshot.
C11_LateJoinerSnapshot ==
  [][ev'.op = "connectJoin" =>
       LET room == heap'[rooms'[ev'.roomId]]
           was == IF ev'.roomId \in DOMAIN rooms
                    THEN heap[rooms[ev'.roomId]] ELSE NewRoom(ev'.roomId, ev'.name)
       IN /\ room.stage = was.stage /\ room.currentCard = was.currentCard
          /\ room.deck = was.deck /\ room.isGameStarted = was.isGameStarted
          /\ \A d \in Conns :
               (d # ev'.c /\ InSeq(d, room.players)) => playerObj'[d] = playerObj[d]
          /\ \A d \in Conns : \A i \in 1..Len(sent'[d]) :
               sent'[d][i].type = "gameStarted" =>
                 d = ev'.c /\ i = 2 /\ room.isGameStarted
          /\ room.isGameStarted =>
               /\ Len(sent'[ev'.c]) = 2
               /\ sent'[ev'.c][1].type = "playerJoined"
               /\ sent'[ev'.c][2] = Snapshot(room, playerObj')
               /\ room.currentCard # NoCard /\ room.stage \in Stages
          /\ ~room.isGameStarted => Len(sent'[ev'.c]) = 1]_vars

\* a player has joined a started room in which another open player sits
C11_Witness ==
  /\ ev.op = "connectJoin"
  /\ StoredRoom(ev.roomId).isGameStarted
  /\ Len(StoredRoom(ev.roomId).players) = 2
  /\ ws[StoredRoom(ev.roomId).players[1]].readyState = "OPEN"
  /\ Len(sent[ev.c]) = 2

\* C12: a player who has just joined a room whose round is in progress is
\* not eligible to guess in that round: a guess of that player right after
\* the join (no startGame in between) changes neither the stage, the current
\* card nor a score.
C12_LateJoinerCannotGuess ==
  [][(/\ ev.op = "connectJoin"
      /\ StoredRoom(ev.roomId).isGameStarted
      /\ ev'.op = "message" /\ ev'.c = ev.c /\ ev'.msg.type = "guess") =>
       /\ ev.roomId \in DOMAIN rooms'
       /\ heap'[rooms'[ev.roomId]].stage = StoredRoom(ev.roomId).stage
       /\ heap'[rooms'[ev.roomId]].currentCard = StoredRoom(ev.roomId).currentCard
       /\ \A d \in Conns :
            InSeq(d, StoredRoom(ev.roomId).players) =>
              playerObj'[d].score = playerObj[d].score]_vars

\* the Room the handlers of socket c work on
ClosureRoom(c) == heap[ws[c].room]

\* the step is a message of the given type from a participant
MessageStep(e, type) == e.op = "message" /\ e.msg.type = type

\* C13: startGame on a room in waiting, from any member, starts the game at
\* stage red_black, rebuilds the deck to 52 cards and draws one of them as
\* the current card (51 remain), keeps every score, and broadcasts
\* gameStarted with that stage, that card and the player list.
C13_StartGame ==
  [][(MessageStep(ev', "startGame") /\ ~ClosureRoom(ev'.c).isGameStarted) =>
       LET room == heap'[ws'[ev'.c].room]
           cards == {Cards(room.deck)[i] : i \in 1..Len(Cards(room.deck))}
       IN /\ room.isGameStarted /\ room.stage = "red_black"
          /\ Len(Cards(room.deck)) = 51 /\ Cardinality(cards) = 51
          /\ room.currentCard # NoCard /\ room.currentCard \notin cards
          /\ cards \cup {room.currentCard} = {FreshCards[i] : i \in 1..52}
          /\ room.players = ClosureRoom(ev'.c).players
          /\ playerObj' = playerObj
          /\ \A d \in Conns :
               sent'[d] = IF InSeq(d, room.players) /\ ws[d].readyState = "OPEN"
                            THEN << [type |-> "gameStarted", stage |-> "red_black",
                                     currentCard |-> room.currentCard,
                                     players |-> Projection(room.players, playerObj)] >>
                            ELSE << >>]_vars

\* a member that is not the creator has started a second round, with a
\* score above 0 in the room: the deck is back at 51 cards
C13_Witness ==
  /\ MessageStep(ev, "startGame")
  /\ ClosureRoom(ev.c).isGameStarted
  /\ ClosureRoom(ev.c).deck.length = 51
  /\ playerObj[ev.c].name # ClosureRoom(ev.c).creator
  /\ \E i \in 1..Len(ClosureRoom(ev.c).players) :
       playerObj[ClosureRoom(ev.c).players[i]].score > 0
  /\ Len(sent[ev.c]) = 1

\* C14: startGame on a room that is already started is ignored: stage,
\* current card, deck, scores and isGameStarted are unchanged, and nothing
\* (no gameStarted, no error) is sent to any connection.
C14_StartGameIgnored ==
  [][(MessageStep(ev', "startGame") /\ ClosureRoom(ev'.c).isGameStarted) =>
       LET room == heap'[ws'[ev'.c].room]
           was == ClosureRoom(ev'.c)
       IN /\ room.isGameStarted
          /\ room.stage = was.stage /\ room.currentCard = was.currentCard
          /\ room.deck = was.deck /\ room.players = was.players
          /\ playerObj' = playerObj
          /\ sent' = NoSent
          /\ UNCHANGED << ws, rooms, players, connections >>]_vars

\* startGame was ignored in a started room of two open players, after a
\* guess of the round
C14_Witness ==
  /\ MessageStep(ev, "startGame")
  /\ sent = NoSent
  /\ ClosureRoom(ev.c).isGameStarted
  /\ ClosureRoom(ev.c).stage = "higher_lower"
  /\ Len(ClosureRoom(ev.c).players) = 2
  /\ \A i \in 1..2 : ws[ClosureRoom(ev.c).players[i]].readyState = "OPEN"

\* C15: a guess sent while the room is in waiting is answered with the error
\* GAME_NOT_ACTIVE, sent to the sender only; no card is drawn, stage, current
\* card and scores are unchanged, nothing is broadcast, and the sender stays
\* open and registered.
C15_GuessInWaiting ==
  [][(MessageStep(ev', "guess") /\ ~ClosureRoom(ev'.c).isGameStarted) =>
       LET room == heap'[ws'[ev'.c].room]
           was == ClosureRoom(ev'.c)
       IN /\ sent' = [NoSent EXCEPT ![ev'.c] = << ErrorMsg("GAME_NOT_ACTIVE") >>]
          /\ ~room.isGameStarted
          /\ room.stage = was.stage /\ room.currentCard = was.currentCard
          /\ room.deck = was.deck /\ room.players = was.players
          /\ playerObj' = playerObj
          /\ ws'[ev'.c].readyState = "OPEN" /\ ws'[ev'.c].recv
          /\ ev'.c \in players'
          /\ connections'[ConnectionKey(ev'.roomId, ev'.name)] = ev'.c
          /\ UNCHANGED << ws, rooms, players, connections >>]_vars

\* a guess was refused in a room of two open players that has played a round
C15_Witness ==
  /\ MessageStep(ev, "guess")
  /\ ~ClosureRoom(ev.c).isGameStarted
  /\ ClosureRoom(ev.c).deck.length < DECK_SIZE
  /\ Len(ClosureRoom(ev.c).players) = 2
  /\ \A i \in 1..2 : ws[ClosureRoom(ev.c).players[i]].readyState = "OPEN"
  /\ Len(sent[ev.c]) = 1 /\ sent[ev.c][1].type = "error"

\* the stages in their order
StageOrder == << "red_black", "higher_lower", "inside_outside", "suit" >>

\* the stage after the given one; none (Null) after the last
Successor(stage) ==
  IF \E i \in 1..3 : StageOrder[i] = stage
    THEN StageOrder[(CHOOSE i \in 1..3 : StageOrder[i] = stage) + 1]
    ELSE Null

\* the card on top of a deck: the one draw removes
TopCard(deck) == Cards(deck)[Len(Cards(deck))]

\* the step is a guess processed in an active round with a card to draw
ProcessedGuess ==
  /\ MessageStep(ev', "guess")
  /\ ClosureRoom(ev'.c).isGameStarted
  /\ ClosureRoom(ev'.c).currentCard # NoCard
  /\ Len(Cards(ClosureRoom(ev'.c).deck)) > 0

\* C16: a guess processed in an active room draws exactly one card, adds 1
\* to the issuer's score iff the guess is correct and changes no other
\* score, advances the stage to its successor whatever the result, makes the
\* drawn card the current card (until the game over of the same step clears
\* it after the last stage), and broadcasts guessResult with the issuer's
\* name and new score, isCorrect, the next stage and the drawn card.
C16_GuessProcessed ==
  [][ProcessedGuess =>
       LET was == ClosureRoom(ev'.c)
           room == heap'[ws'[ev'.c].room]
           drawn == TopCard(was.deck)
           correct == checkGuess(ev'.msg.guess, was.currentCard, drawn)
       IN /\ Cards(room.deck) = SubSeq(Cards(was.deck), 1, Len(Cards(was.deck)) - 1)
          /\ playerObj'[ev'.c].score =
               playerObj[ev'.c].score + (IF correct THEN 1 ELSE 0)
          /\ playerObj'[ev'.c].name = playerObj[ev'.c].name
          /\ \A d \in DOMAIN playerObj' : d # ev'.c => playerObj'[d] = playerObj[d]
          /\ room.stage = Successor(was.stage)
          /\ room.stage # Null => room.currentCard = drawn /\ room.isGameStarted
          /\ room.players = was.players
          /\ \A d \in Conns :
               IF InSeq(d, room.players) /\ ws[d].readyState = "OPEN"
                 THEN /\ Len(sent'[d]) >= 1
                      /\ sent'[d][1] =
                           [type |-> "guessResult",
                            playerName |-> playerObj[ev'.c].name,
                            score |-> playerObj'[ev'.c].score,
                            isCorrect |-> correct,
                            nextStage |-> Successor(was.stage),
                            currentCard |-> drawn]
                 ELSE sent'[d] = << >>]_vars

\* a correct guess has scored in a room in which the other player guessed
\* wrong before: the round is at its third stage
C16_Witness ==
  /\ MessageStep(ev, "guess")
  /\ ClosureRoom(ev.c).isGameStarted
  /\ ClosureRoom(ev.c).stage = "inside_outside"
  /\ Len(ClosureRoom(ev.c).players) = 2
  /\ playerObj[ev.c].score = 1
  /\ \E i \in 1..2 : playerObj[ClosureRoom(ev.c).players[i]].score = 0
  /\ Len(sent[ev.c]) = 1 /\ sent[ev.c][1].type = "guessResult"
  /\ sent[ev.c][1].isCorrect

\* C17: a guess processed at stage suit takes the stage to the terminal
\* value and runs the game over in the same step: guessResult is sent before
\* gameOver, the room is in waiting afterwards, and no room is ever left
\* started with no stage, so no message is processed in such a state.
C17_LastGuessEndsRound ==
  [][/\ (ProcessedGuess /\ ClosureRoom(ev'.c).stage = "suit") =>
          LET room == heap'[ws'[ev'.c].room]
          IN /\ ~room.isGameStarted /\ room.stage = Null
             /\ room.currentCard = NoCard
             /\ \A d \in Conns :
                  (InSeq(d, room.players) /\ ws[d].readyState = "OPEN") =>
                    /\ Len(sent'[d]) = 2
                    /\ sent'[d][1].type = "guessResult"
                    /\ sent'[d][1].nextStage = Null
                    /\ sent'[d][2].type = "gameOver"
     /\ ev'.op = "message" =>
          ~(ClosureRoom(ev'.c).isGameStarted /\ ClosureRoom(ev'.c).stage = Null)
     /\ \A o \in DOMAIN heap' :
          ~(heap'[o].isGameStarted /\ heap'[o].stage = Null)]_vars

\* a correct suit guess has ended a round in a room of two open players
C17_Witness ==
  /\ MessageStep(ev, "guess")
  /\ ~ClosureRoom(ev.c).isGameStarted
  /\ Len(ClosureRoom(ev.c).players) = 2
  /\ \A i \in 1..2 :
       LET d == ClosureRoom(ev.c).players[i]
       IN /\ Len(sent[d]) = 2
          /\ sent[d][1].type = "guessResult" /\ sent[d][1].isCorrect
          /\ sent[d][2].type = "gameOver"

\* the guesses processed so far in the round of a started room, by its stage
GuessesDone(stage) == (CHOOSE i \in 1..4 : StageOrder[i] = stage) - 1

\* C18: after startGame exactly four processed guesses, one per stage and
\* from any players, end the round: a started room at its i-th stage has
\* drawn i cards of the 52, the guess at the fourth stage returns the room
\* to waiting with no stage and no card and 47 cards left, and the scores
\* are the same after that guess, after its game over and after the next
\* startGame.
C18_FourGuessesPerRound ==
  [][/\ \A o \in DOMAIN heap' :
          IF heap'[o].isGameStarted
            THEN /\ heap'[o].stage \in Stages
                 /\ heap'[o].deck.length = 51 - GuessesDone(heap'[o].stage)
            ELSE heap'[o].deck.length \in {52, 47}
     /\ ProcessedGuess =>
          LET was == ClosureRoom(ev'.c)
              room == heap'[ws'[ev'.c].room]
          IN IF was.stage = "suit"
               THEN /\ was.deck.length = 48 /\ room.deck.length = 47
                    /\ ~room.isGameStarted /\ room.stage = Null
                    /\ room.currentCard = NoCard
                    /\ \A d \in Conns :
                         (InSeq(d, room.players) /\ ws[d].readyState = "OPEN") =>
                           /\ sent'[d][1].score = playerObj'[ev'.c].score
                           /\ sent'[d][2].scores = Projection(room.players, playerObj')
               ELSE room.isGameStarted /\ room.deck.length = was.deck.length - 1
     /\ MessageStep(ev', "startGame") => playerObj' = playerObj]_vars

\* a second round has been started in a room whose two players both scored
\* in the first
C18_Witness ==
  /\ MessageStep(ev, "startGame")
  /\ ClosureRoom(ev.c).isGameStarted
  /\ ClosureRoom(ev.c).deck.length = 51
  /\ Len(ClosureRoom(ev.c).players) = 2
  /\ \A i \in 1..2 : playerObj[ClosureRoom(ev.c).players[i]].score = 1
  /\ Len(sent[ev.c]) = 1
  /\ sent[ev.c][1].players = Projection(ClosureRoom(ev.c).players, playerObj)

\* C19: gameOver names as winners exactly the players now in the room whose
\* score is the greatest in the room (all of them on a tie), at least one
\* when the room has a player, and its scores list every player of the room
\* with that player's score.
C19_WinnersAreTheBest ==
  [][ev'.op = "message" =>
       \A d \in Conns : \A i \in 1..Len(sent'[d]) :
         sent'[d][i].type = "gameOver" =>
           LET room == heap'[ws'[ev'.c].room]
               n == Len(room.players)
               score == [k \in 1..n |-> playerObj'[room.players[k]].score]
               name == [k \in 1..n |-> playerObj'[room.players[k]].name]
               best == {k \in 1..n : \A j \in 1..n : score[j] <= score[k]}
               winners == sent'[d][i].winners
           IN /\ Len(winners) = Cardinality(best)
              /\ {winners[k] : k \in 1..Len(winners)} = {name[k] : k \in best}
              /\ n > 0 => Len(winners) > 0
              /\ Len(sent'[d][i].scores) = n
              /\ \A k \in 1..n :
                   sent'[d][i].scores[k] = [name |-> name[k], score |-> score[k]]]_vars

\* a round has ended in a tie above 0: both players of the room are winners
C19_Witness ==
  /\ MessageStep(ev, "guess")
  /\ Len(sent[ev.c]) = 2 /\ sent[ev.c][2].type = "gameOver"
  /\ Len(sent[ev.c][2].winners) = 2
  /\ sent[ev.c][2].scores[1].score = 1

\* C20: a guess in an active room whose deck has no card left runs the game
\* over instead of an error: gameOver goes out with the scores as they were
\* before the guess, no guessResult and no error is sent, no score changes,
\* no card is drawn, and the room returns to waiting.
C20_EmptyDeckEndsRound ==
  [][(/\ MessageStep(ev', "guess")
      /\ ClosureRoom(ev'.c).isGameStarted
      /\ ClosureRoom(ev'.c).currentCard # NoCard
      /\ Len(Cards(ClosureRoom(ev'.c).deck)) = 0) =>
       LET was == ClosureRoom(ev'.c)
           room == heap'[ws'[ev'.c].room]
       IN /\ playerObj' = playerObj
          /\ ~room.isGameStarted /\ room.stage = Null /\ room.currentCard = NoCard
          /\ Len(Cards(room.deck)) = 0
          /\ room.players = was.players
          /\ \A d \in Conns :
               IF InSeq(d, was.players) /\ ws[d].readyState = "OPEN"
                 THEN /\ Len(sent'[d]) = 1
                      /\ sent'[d][1].type = "gameOver"
                      /\ sent'[d][1].scores = Projection(was.players, playerObj)
                 ELSE sent'[d] = << >>]_vars

\* a guess that would have been correct met an empty deck: the round is
\* over and the scores stand
C20_Witness ==
  /\ MessageStep(ev, "guess") /\ ev.msg.guess = "lower"
  /\ ClosureRoom(ev.c).deck.length = 0
  /\ ~ClosureRoom(ev.c).isGameStarted
  /\ playerObj[ev.c].score = 0
  /\ Len(sent[ev.c]) = 1 /\ sent[ev.c][1].type = "gameOver"

\* C21: at stage higher_lower, when the drawn card has the rank of the
\* previous card, a guess of higher or of lower is counted correct and the
\* issuer's score grows by one.
C21_EqualRankCorrect ==
  [][(/\ ProcessedGuess
      /\ ClosureRoom(ev'.c).stage = "higher_lower"
      /\ ev'.msg.guess \in {"higher", "lower"}
      /\ TopCard(ClosureRoom(ev'.c).deck).value =
           ClosureRoom(ev'.c).currentCard.value) =>
       /\ playerObj'[ev'.c].score = playerObj[ev'.c].score + 1
       /\ Len(sent'[ev'.c]) >= 1
       /\ sent'[ev'.c][1].type = "guessResult"
       /\ sent'[ev'.c][1].isCorrect]_vars

\* the guess values of a stage
StageTokens(stage) ==
  CASE stage = "red_black" -> {"red", "black"}
    [] stage = "higher_lower" -> {"higher", "lower"}
    [] stage = "inside_outside" -> {"inside", "outside"}
    [] stage = "suit" -> {"hearts", "diamonds", "clubs", "spades"}
    [] OTHER -> {}

\* the rule of a stage for one of its guess values, on the previous and the
\* drawn card
StageRule(stage, guess, prev, next) ==
  CASE stage = "red_black" ->
         IF guess = "red" THEN next.suit \in {"hearts", "diamonds"}
                          ELSE next.suit \in {"clubs", "spades"}
    [] stage = "inside_outside" ->
         IF guess = "inside" THEN Abs(next.value - prev.value) <= 3
                             ELSE Abs(next.value - prev.value) > 3
    [] stage = "suit" -> guess = next.suit
    [] OTHER -> FALSE

\* C22: a guess is evaluated by the rule of the room's current stage on the
\* previous and the drawn card: at red_black, inside_outside and suit a guess
\* value of the stage is counted correct exactly when the stage's rule
\* holds, and at every stage a token that is not a guess value of the stage
\* is not counted correct.
C22_EvaluatedByStageRule ==
  [][ProcessedGuess =>
       LET was == ClosureRoom(ev'.c)
           guess == ev'.msg.guess
           counted == playerObj'[ev'.c].score = playerObj[ev'.c].score + 1
       IN /\ playerObj'[ev'.c].score \in
               {playerObj[ev'.c].score, playerObj[ev'.c].score + 1}
          /\ guess \notin StageTokens(was.stage) => ~counted
          /\ (guess \in StageTokens(was.stage) /\ was.stage # "higher_lower") =>
               (counted <=>
                  StageRule(was.stage, guess, was.currentCard, TopCard(was.deck)))]_vars

\* the reply to getState: the state of the room under the type of its phase
StateReply(room, PO) ==
  [type |-> IF room.isGameStarted THEN "gameStarted" ELSE "waitingToStart",
   stage |-> room.stage, currentCard |-> room.currentCard,
   players |-> Projection(room.players, PO),
   isGameStarted |-> room.isGameStarted]

\* C23: getState from a participant of a room sends exactly one message, to
\* the requesting connection only: gameStarted if the room is started and
\* waitingToStart otherwise, with the room's stage, current card and
\* name/score list; stage, current card, deck, players, scores and
\* isGameStarted are unchanged.
C23_GetStateRepliesToSender ==
  [][(MessageStep(ev', "getState") /\ InSeq(ev'.c, ClosureRoom(ev'.c).players)) =>
       LET was == ClosureRoom(ev'.c)
           room == heap'[ws'[ev'.c].room]
       IN /\ sent'[ev'.c] = << StateReply(was, playerObj) >>
          /\ sent'[ev'.c][1].type =
               (IF was.isGameStarted THEN "gameStarted" ELSE "waitingToStart")
          /\ \A d \in Conns : d # ev'.c => sent'[d] = << >>
          /\ room.stage = was.stage
          /\ room.currentCard = was.currentCard
          /\ room.deck = was.deck
          /\ room.players = was.players
          /\ room.isGameStarted = was.isGameStarted
          /\ \A d \in Conns : InSeq(d, was.players) => playerObj'[d] = playerObj[d]]_vars

\* getState was answered in a started room of two open players, one of
\* whom has scored
C23_Witness ==
  /\ MessageStep(ev, "getState")
  /\ ClosureRoom(ev.c).isGameStarted
  /\ Len(ClosureRoom(ev.c).players) = 2
  /\ \A i \in 1..2 : ws[ClosureRoom(ev.c).players[i]].readyState = "OPEN"
  /\ \E i \in 1..2 : playerObj[ClosureRoom(ev.c).players[i]].score = 1
  /\ sent[ev.c] = << StateReply(ClosureRoom(ev.c), playerObj) >>

\* the Room of socket c's handlers is no longer in the Room Store
RoomGone(c) == \A r \in DOMAIN rooms : rooms[r] # ws[c].room

\* C24: when the room a connection joined is no longer in the Room Store,
\* a getState, startGame or guess arriving on that connection is answered
\* with an error of kind RoomNotFound and changes no state.
C24_RoomNotFoundAnswered ==
  [][(/\ ev'.op = "message"
      /\ ev'.msg.type \in {"getState", "startGame", "guess"}
      /\ RoomGone(ev'.c)) =>
       LET was == ClosureRoom(ev'.c)
           room == heap'[ws'[ev'.c].room]
       IN /\ sent'[ev'.c] = << ErrorMsg("ROOM_NOT_FOUND") >>
          /\ room.stage = was.stage
          /\ room.currentCard = was.currentCard
          /\ room.deck = was.deck
          /\ room.isGameStarted = was.isGameStarted
          /\ rooms' = rooms
          /\ connections' = connections]_vars

\* socket c is registered: it has a Player and the registry holds it under
\* that player's key
Registered(c) ==
  /\ c \in players
  /\ ConnectionKey(playerObj[c].roomId, playerObj[c].name) \in DOMAIN connections
  /\ connections[ConnectionKey(playerObj[c].roomId, playerObj[c].name)] = c

\* C25: when a registered connection closes, that step removes its player
\* from the room's player list and from the registry; if other players
\* remain, playerLeft with the updated list is broadcast to them and the
\* room's stage, current card and remaining scores are unchanged; if none
\* remain, the room is deleted from the Room Store.
C25_CloseRemovesPlayer ==
  [][(ev'.op = "close" /\ Registered(ev'.c)) =>
       LET c == ev'.c
           id == playerObj[c].roomId
           was == StoredRoom(id)
           rest == SelectSeq(was.players, LAMBDA x : x # c)
       IN /\ id \in DOMAIN rooms
          /\ InSeq(c, was.players)
          /\ c \notin players'
          /\ ConnectionKey(id, playerObj[c].name) \notin DOMAIN connections'
          /\ IF Len(rest) = 0
               THEN /\ id \notin DOMAIN rooms'
                    /\ sent' = NoSent
               ELSE /\ id \in DOMAIN rooms'
                    /\ heap'[rooms'[id]].players = rest
                    /\ heap'[rooms'[id]].stage = was.stage
                    /\ heap'[rooms'[id]].currentCard = was.currentCard
                    /\ heap'[rooms'[id]].isGameStarted = was.isGameStarted
                    /\ \A d \in Conns : InSeq(d, rest) => playerObj'[d] = playerObj[d]
                    /\ \A d \in Conns :
                         sent'[d] =
                           IF InSeq(d, rest) /\ ws[d].readyState = "OPEN"
                             THEN << [type |-> "playerLeft",
                                      playerName |-> playerObj[c].name,
                                      players |-> Projection(rest, playerObj)] >>
                             ELSE << >>]_vars

\* a close has left a started room to a player who has scored, and that
\* player was told playerLeft
C25_Witness ==
  /\ ev.op = "close"
  /\ \E d \in Conns :
       /\ d \in players
       /\ playerObj[d].roomId \in DOMAIN rooms
       /\ StoredRoom(playerObj[d].roomId).players = << d >>
       /\ StoredRoom(playerObj[d].roomId).isGameStarted
       /\ playerObj[d].score = 1
       /\ Len(sent[d]) = 1 /\ sent[d][1].type = "playerLeft"
       /\ sent[d][1].players = << [name |-> playerObj[d].name, score |-> 1] >>

\* a close has emptied a room, which has left the Room Store
C25_WitnessEmpty ==
  /\ ev.op = "close"
  /\ sent = NoSent
  /\ rooms = EmptyMap
  /\ players = {}

\* the Room stored under roomId has been idle for more than the timeout
StoredIdle(roomId) ==
  /\ roomId \in DOMAIN rooms
  /\ now - StoredRoom(roomId).lastActivity > ROOM_TIMEOUT

\* what an idle sweep does to the rooms whose last activity is more than 30
\* minutes old: every open member is sent roomClosed and then closed with
\* INVALID_ROOM (4002), every member leaves the registry and the
\* connection-to-player map, and the room leaves the Room Store
C26_SweepClosesIdleRooms ==
  [][ev'.op = "cleanup" =>
       \A r \in DOMAIN rooms :
         StoredIdle(r) =>
           /\ r \notin DOMAIN rooms'
           /\ ev'.code = 4002
           /\ \A i \in 1..Len(StoredRoom(r).players) :
                LET d == StoredRoom(r).players[i]
                IN /\ ws[d].readyState = "OPEN" =>
                        /\ sent'[d] = << [type |-> "roomClosed",
                                          reason |-> "Room closed due to inactivity"] >>
                        /\ ws'[d].readyState = "CLOSING"
                   /\ d \notin players'
                   /\ ConnectionKey(playerObj[d].roomId, playerObj[d].name)
                        \notin DOMAIN connections']_vars

\* a room that is idle does not stay in the Room Store idle for ever
C26_IdleRoomRemoved ==
  \A r \in {p[1] : p \in TwoRooms} :
    StoredIdle(r) ~> ~StoredIdle(r)

\* C26: if a room's lastActivity is more than 30 minutes old when an idle
\* sweep runs, the sweep sends roomClosed to each open member before closing
\* it with InvalidRoom (4002), removes every member from the registry and
\* the connection-to-player map and deletes the room; under a fair sweep
\* timer every room that stays idle is eventually removed.
C26_IdleRoomSwept == C26_SweepClosesIdleRooms /\ C26_IdleRoomRemoved

\* a sweep has closed two idle rooms at once: the member of each was told
\* roomClosed, is closing and has left the maps
C26_Witness ==
  /\ ev.op = "cleanup"
  /\ ev.code = INVALID_ROOM
  /\ \E c, d \in Conns :
       /\ c # d
       /\ \A x \in {c, d} :
            /\ Len(sent[x]) = 1 /\ sent[x][1].type = "roomClosed"
            /\ ws[x].readyState = "CLOSING"
            /\ x \notin players
       /\ playerObj[c].roomId # playerObj[d].roomId
  /\ rooms = EmptyMap
  /\ connections = EmptyMap

\* C27: an idle sweep force-closes a room only if now - lastActivity
\* exceeds the 30-minute threshold at sweep time: a room whose lastActivity
\* is within the threshold keeps its players, its registry entries, its game
\* state and its open connections across the sweep.
C27_ActiveRoomSurvivesSweep ==
  [][ev'.op = "cleanup" =>
       \A r \in DOMAIN rooms :
         now - StoredRoom(r).lastActivity <= ROOM_TIMEOUT =>
           /\ r \in DOMAIN rooms'
           /\ heap'[rooms'[r]] = StoredRoom(r)
           /\ \A i \in 1..Len(StoredRoom(r).players) :
                LET d == StoredRoom(r).players[i]
                IN /\ d \in players => d \in players'
                   /\ Registered(d) =>
                        /\ ConnectionKey(r, playerObj[d].name) \in DOMAIN connections'
                        /\ connections'[ConnectionKey(r, playerObj[d].name)] = d
                   /\ playerObj'[d] = playerObj[d]
                   /\ ws'[d].readyState = ws[d].readyState
                   /\ sent'[d] = << >>]_vars

\* C28: a ping from a participant of a room is answered with pong to the
\* sender only and has no other effect: the room's stage, current card,
\* deck, players, scores and isGameStarted are unchanged, and so is its
\* lastActivity, hence its idle-reclamation deadline.
C28_PingHasNoEffect ==
  [][(MessageStep(ev', "ping") /\ InSeq(ev'.c, ClosureRoom(ev'.c).players)
        /\ ws[ev'.c].readyState = "OPEN") =>
       LET was == ClosureRoom(ev'.c)
           room == heap'[ws'[ev'.c].room]
       IN /\ sent'[ev'.c] = << [type |-> "pong"] >>
          /\ \A d \in Conns : d # ev'.c => sent'[d] = << >>
          /\ room.stage = was.stage
          /\ room.currentCard = was.currentCard
          /\ room.deck = was.deck
          /\ room.players = was.players
          /\ room.isGameStarted = was.isGameStarted
          /\ \A d \in Conns : InSeq(d, was.players) => playerObj'[d] = playerObj[d]
          /\ room.lastActivity = was.lastActivity]_vars

\* C29: a room's lastActivity is set to the current time when the room is
\* created and on every inbound message received from one of its
\* connections, including messages of unknown type and payloads that cannot
\* be parsed.
C29_LastActivityOnEveryMessage ==
  [][/\ (ev'.op = "connectJoin" /\ ev'.roomId \notin DOMAIN rooms) =>
          /\ ev'.roomId \in DOMAIN rooms'
          /\ heap'[rooms'[ev'.roomId]].lastActivity = now
     /\ ev'.op = "message" =>
          heap'[ws'[ev'.c].room].lastActivity = now]_vars

\* C30: a malformed payload from a participant of a room is answered with
\* an error of kind MessageParseError sent to that connection only; the
\* connection stays open and registered, nothing is broadcast, and the
\* room's stage, current card, deck, players and scores are unchanged.
C30_MalformedPayload ==
  [][(MessageStep(ev', "malformed") /\ Registered(ev'.c)
        /\ ws[ev'.c].readyState = "OPEN") =>
       LET c == ev'.c
           was == ClosureRoom(c)
           room == heap'[ws'[c].room]
       IN /\ sent'[c] = << ErrorMsg("MESSAGE_PARSE_ERROR") >>
          /\ \A d \in Conns : d # c => sent'[d] = << >>
          /\ ws'[c].readyState = "OPEN"
          /\ c \in players'
          /\ connections' = connections
          /\ rooms' = rooms
          /\ room.stage = was.stage
          /\ room.currentCard = was.currentCard
          /\ room.deck = was.deck
          /\ room.players = was.players
          /\ room.isGameStarted = was.isGameStarted
          /\ \A d \in Conns : InSeq(d, was.players) => playerObj'[d] = playerObj[d]]_vars

\* a malformed payload was answered in a started room of two open players,
\* one of whom has scored: the other player was sent nothing
C30_Witness ==
  /\ MessageStep(ev, "malformed")
  /\ Registered(ev.c)
  /\ ClosureRoom(ev.c).isGameStarted
  /\ ClosureRoom(ev.c).stage = "higher_lower"
  /\ Len(ClosureRoom(ev.c).players) = 2
  /\ \A i \in 1..2 : ws[ClosureRoom(ev.c).players[i]].readyState = "OPEN"
  /\ \E i \in 1..2 : playerObj[ClosureRoom(ev.c).players[i]].score = 1
  /\ sent[ev.c] = << ErrorMsg("MESSAGE_PARSE_ERROR") >>

\* the types of the messages the step of event e broadcasts to a room
BroadcastTypes(e) ==
  CASE e.op = "connectJoin" -> {"playerJoined"}
    [] e.op = "message" /\ e.msg.type = "startGame" -> {"gameStarted"}
    [] e.op = "message" /\ e.msg.type = "guess" -> {"guessResult", "gameOver"}
    [] e.op \in {"close", "error"} -> {"playerLeft"}
    [] OTHER -> {}

\* the broadcast messages among those a socket was sent
Broadcasts(msgs, types) == SelectSeq(msgs, LAMBDA m : m.type \in types)

\* no message occurs twice in the sequence
NoRepeat(msgs) ==
  \A i, j \in 1..Len(msgs) : msgs[i] = msgs[j] => i = j

\* the step of event e is the disconnect cleanup of a socket that has a
\* Player whose room is in the Room Store
Leaves(e) ==
  /\ e.op \in {"close", "error"}
  /\ e.c \in players
  /\ playerObj[e.c].roomId \in DOMAIN rooms

\* C31: a room broadcast delivers to every player of the room whose
\* connection is open and skips the connections that are not open; a
\* connection that cannot be sent to neither keeps the message from the
\* remaining players nor undoes the state change that caused the broadcast,
\* and no delivery is repeated.
C31_BroadcastBestEffort ==
  [][LET e == ev'
         audience ==
           CASE e.op = "connectJoin" ->
                  {d \in Conns : InSeq(d, heap'[rooms'[e.roomId]].players)}
             [] e.op = "message" ->
                  {d \in Conns : InSeq(d, ClosureRoom(e.c).players)}
             [] Leaves(e) ->
                  {d \in Conns : d # e.c /\
                     InSeq(d, StoredRoom(playerObj[e.c].roomId).players)}
             [] OTHER -> {}
         open == {d \in audience :
                    ws[d].readyState = "OPEN" \/ (e.op = "connectJoin" /\ d = e.c)}
         caused == \/ e.op = "connectJoin"
                   \/ Leaves(e)
                   \/ MessageStep(e, "startGame") /\ ~ClosureRoom(e.c).isGameStarted
                   \/ ProcessedGuess
     IN /\ \A d \in Conns \ open : Broadcasts(sent'[d], BroadcastTypes(e)) = << >>
        /\ \A d, x \in open :
             Broadcasts(sent'[d], BroadcastTypes(e)) =
               Broadcasts(sent'[x], BroadcastTypes(e))
        /\ \A d \in open :
             /\ NoRepeat(sent'[d])
             /\ caused => Len(Broadcasts(sent'[d], BroadcastTypes(e))) >= 1
        /\ (MessageStep(e, "startGame") /\ ~ClosureRoom(e.c).isGameStarted) =>
             /\ heap'[ws'[e.c].room].isGameStarted
             /\ heap'[ws'[e.c].room].stage = "red_black"
        /\ ProcessedGuess =>
             heap'[ws'[e.c].room].deck.length = ClosureRoom(e.c).deck.length - 1]_vars

\* a round was started in a room of two players one of whom cannot be sent
\* to: the other one was told gameStarted and the round is on
C31_Witness ==
  /\ MessageStep(ev, "startGame")
  /\ ClosureRoom(ev.c).isGameStarted
  /\ ClosureRoom(ev.c).players[1] # ev.c
  /\ Len(ClosureRoom(ev.c).players) = 2
  /\ ws[ClosureRoom(ev.c).players[1]].readyState # "OPEN"
  /\ sent[ClosureRoom(ev.c).players[1]] = << >>
  /\ Len(sent[ev.c]) = 1 /\ sent[ev.c][1].type = "gameStarted"

\* the ids of the rooms the step of event e is about: the room joined, the
\* room of the connection that sent a message or went away, the rooms an
\* idle sweep reclaims
RoomsOf(e) ==
  CASE e.op = "connectJoin" -> {e.roomId}
    [] e.op = "message" -> {playerObj[e.c].roomId}
    [] e.op \in {"close", "error"} ->
         IF e.c \in DOMAIN playerObj THEN {playerObj[e.c].roomId} ELSE {}
    [] e.op = "cleanup" -> {r \in DOMAIN rooms : StoredIdle(r)}
    [] OTHER -> {}

\* C32: a join, a disconnect, a startGame, guess, getState, ping or
\* malformed message on a connection of room A, and the idle reclamation of
\* room A, leave every other room B's players, scores, stage, current card,
\* deck, isGameStarted and lastActivity unchanged and send nothing to B's
\* connections.
C32_OtherRoomsUntouched ==
  [][ev'.op \in {"connectJoin", "message", "close", "error", "cleanup"} =>
       \A B \in DOMAIN rooms \ RoomsOf(ev') :
         /\ B \in DOMAIN rooms'
         /\ heap'[rooms'[B]] = StoredRoom(B)
         /\ \A i \in 1..Len(StoredRoom(B).players) :
              /\ playerObj'[StoredRoom(B).players[i]] =
                   playerObj[StoredRoom(B).players[i]]
              /\ sent'[StoredRoom(B).players[i]] = << >>]_vars

\* a guess was processed in one room while the other room, with an open
\* player, is in a round of its own
C32_Witness ==
  /\ MessageStep(ev, "guess")
  /\ Len(sent[ev.c]) >= 1 /\ sent[ev.c][1].type = "guessResult"
  /\ \E B \in DOMAIN rooms :
       /\ B # ev.roomId
       /\ StoredRoom(B).isGameStarted
       /\ StoredRoom(B).stage = "higher_lower"
       /\ Len(StoredRoom(B).players) = 1
       /\ ws[StoredRoom(B).players[1]].readyState = "OPEN"
       /\ sent[StoredRoom(B).players[1]] = << >>

\* the step before was a guess of another player of the same room that was
\* processed, and this step is a guess that is processed
GuessAfterGuess ==
  /\ MessageStep(ev, "guess")
  /\ Len(sent[ev.c]) >= 1 /\ sent[ev.c][1].type = "guessResult"
  /\ ProcessedGuess
  /\ ev'.c # ev.c
  /\ ws[ev'.c].room = ws[ev.c].room

\* C33: guesses are applied one at a time in arrival order: of two guesses
\* two players send for the same outstanding card, the first is evaluated
\* against that card and the second against the card the first one drew, at
\* the stage the first one advanced to; no two guesses are evaluated against
\* the same previous card, and each processed guess advances the stage by
\* exactly one step.
C33_GuessesOneAtATime ==
  [][/\ GuessAfterGuess =>
          LET first == sent[ev.c][1]
              second == sent'[ev'.c][1]
              was == ClosureRoom(ev'.c)
          IN /\ was.currentCard = first.currentCard
             /\ was.stage = first.nextStage
             /\ second.type = "guessResult"
             /\ second.currentCard = TopCard(was.deck)
             /\ second.isCorrect =
                  checkGuess(ev'.msg.guess, first.currentCard, second.currentCard)
             /\ playerObj'[ev'.c].score =
                  playerObj[ev'.c].score + (IF second.isCorrect THEN 1 ELSE 0)
             /\ second.nextStage = Successor(first.nextStage)
     /\ ProcessedGuess =>
          LET was == ClosureRoom(ev'.c)
              room == heap'[ws'[ev'.c].room]
          IN /\ TopCard(was.deck) # was.currentCard
             /\ room.stage = Successor(was.stage)
             /\ room.isGameStarted => room.currentCard = TopCard(was.deck)
             /\ ~room.isGameStarted => room.currentCard = NoCard]_vars

\* two players have guessed one after the other in the same round and both
\* were right: the second guess, red, was evaluated on the 3 of diamonds
\* drawn on the 3 of clubs the first guess had drawn
C33_Witness ==
  /\ MessageStep(ev, "guess")
  /\ ev.msg.guess = "red"
  /\ ClosureRoom(ev.c).stage = "inside_outside"
  /\ ClosureRoom(ev.c).currentCard = Card("diamonds", 3)
  /\ Len(ClosureRoom(ev.c).players) = 2
  /\ \A i \in 1..2 : playerObj[ClosureRoom(ev.c).players[i]].score = 1
  /\ Len(sent[ev.c]) = 1 /\ sent[ev.c][1].type = "guessResult"
  /\ sent[ev.c][1].isCorrect

\* C34: a client whose connection is closed with the normal-closure code
\* (1000) does not treat the close as a failure and schedules no automatic
\* reconnection; only abnormal closes lead to a retry.
C34_NormalCloseNoRetry ==
  [][(client'.op = "onclose" /\ client.mounted) =>
       /\ client'.code = 1000 =>
            /\ client'.error = client.error
            /\ client'.reconnect = client.reconnect
       /\ (client'.reconnect /\ ~client.reconnect) => client'.code # 1000]_vars

\* the step of event e makes a directory listener send the list of rooms
ListRequested(e) ==
  \/ e.op \in {"connectRoomList", "roomListInterval"}
  \/ e.op = "messageRoomList" /\ e.msg.type = "getRooms"

\* the entry of the stored room r in a list of rooms
ListedRoom(r) ==
  [id |-> r,
   players |-> [i \in 1..Len(StoredRoom(r).players) |->
                  [name |-> playerObj[StoredRoom(r).players[i]].name,
                   score |-> playerObj[StoredRoom(r).players[i]].score]],
   isGameStarted |-> StoredRoom(r).isGameStarted,
   playerCount |-> Len(StoredRoom(r).players),
   creator |-> StoredRoom(r).creator]

\* C35: every roomsList payload sent to a directory listener lists exactly
\* the rooms in the Room Store at send time, each with its id, name/score
\* list, playerCount equal to the size of its player list, isGameStarted
\* flag and creator; a payload is sent on connect, on each getRooms request
\* and on each tick of the 1-second interval while the connection is open,
\* and none is sent once it is no longer open.
C35_RoomsListPayload ==
  [][/\ \A c \in Conns :
          \A i \in 1..Len(sent'[c]) :
            sent'[c][i].type = "roomsList" =>
              /\ ListRequested(ev') /\ ev'.c = c
              /\ ws'[c].kind = "roomList" /\ ws'[c].readyState = "OPEN"
              /\ rooms' = rooms
              /\ sent'[c][i].rooms = {ListedRoom(r) : r \in DOMAIN rooms}
              /\ \A x \in sent'[c][i].rooms :
                   /\ x.id \in DOMAIN rooms
                   /\ x.playerCount = Len(x.players)
     /\ ListRequested(ev') =>
          sent'[ev'.c] =
            IF ws'[ev'.c].readyState = "OPEN"
              THEN << [type |-> "roomsList",
                       rooms |-> {ListedRoom(r) : r \in DOMAIN rooms}] >>
              ELSE << >>]_vars

\* the interval of a listener has sent the list of the one room there is,
\* which is in a round and whose player has scored
C35_Witness ==
  /\ ev.op = "roomListInterval"
  /\ Len(sent[ev.c]) = 1 /\ sent[ev.c][1].type = "roomsList"
  /\ Cardinality(sent[ev.c][1].rooms) = 1
  /\ \E x \in sent[ev.c][1].rooms :
       /\ x.isGameStarted
       /\ x.playerCount = 1
       /\ x.players[1].score = 1
       /\ x.creator = x.players[1].name

\* the interval of a listener whose peer is closing has run and sent nothing
C35_WitnessClosing ==
  /\ ev.op = "roomListInterval"
  /\ ws[ev.c].readyState = "CLOSING"
  /\ sent = NoSent

\* C36: between the steps of the handlers every room in the Room Store has
\* at least one player: a room is inserted only together with its first
\* player and is deleted in the same step in which its last player is
\* removed.
C36_NoEmptyRoomStored ==
  [][/\ \A r \in DOMAIN rooms' : Len(heap'[rooms'[r]].players) >= 1
     /\ \A r \in DOMAIN rooms' \ DOMAIN rooms :
          /\ ev'.op = "connectJoin" /\ ev'.roomId = r
          /\ heap'[rooms'[r]].players = << ev'.c >>
     /\ \A r \in DOMAIN rooms :
          (/\ Leaves(ev')
           /\ playerObj[ev'.c].roomId = r
           /\ StoredRoom(r).players = << ev'.c >>) => r \notin DOMAIN rooms']_vars

\* the failure of the only connection there was has removed the last player
\* of its room, and the room with it
C36_Witness ==
  /\ ev.op = "error"
  /\ now = 0
  /\ rooms = EmptyMap
  /\ players = {}
  /\ connections = EmptyMap
  /\ sent = NoSent
  /\ ws[ev.c].readyState = "CLOSING"

\* C37: in every reachable state the deck of every Room holds at least 47
\* cards; in a round its size is 51 minus the number of guesses processed in
\* that round, so a guess in a round always finds a card to draw and the
\* branch for the exhausted deck is never taken.
C37_DeckNeverBelow47 ==
  \A o \in DOMAIN heap :
    /\ heap[o].deck.length >= 47
    /\ heap[o].deck.length <= DECK_SIZE
    /\ heap[o].isGameStarted =>
         /\ heap[o].stage \in Stages
         /\ heap[o].deck.length = 51 - GuessesDone(heap[o].stage)
         /\ DrawCard(heap[o].deck) # NoCard

\* a round has been played to its end by a player who has scored and wins:
\* the deck that was reset for the round is at 47 cards
C37_Witness ==
  /\ MessageStep(ev, "guess")
  /\ ~ClosureRoom(ev.c).isGameStarted
  /\ ClosureRoom(ev.c).deck.length = 47
  /\ Len(sent[ev.c]) = 2 /\ sent[ev.c][2].type = "gameOver"
  /\ \E i \in 1..Len(ClosureRoom(ev.c).players) :
       playerObj[ClosureRoom(ev.c).players[i]].score = 1
  /\ \E i \in 1..Len(sent[ev.c][2].winners) :
       sent[ev.c][2].winners[i] = playerObj[ev.c].name

\* C38: the disconnect cleanup takes effect at most once per connection:
\* when the close event follows the error event of a connection, or the
\* close event of a connection already evicted as stale or reclaimed by the
\* idle sweep arrives, this later invocation changes nothing and sends
\* nothing (so playerLeft is broadcast at most once for the departure), and
\* a player admitted meanwhile under the same room and name stays.
C38_CleanupAtMostOnce ==
  [][(ev'.op \in {"close", "error"} /\ ev'.c \notin players) =>
       /\ DOMAIN rooms' = DOMAIN rooms
       /\ \A r \in DOMAIN rooms : heap'[rooms'[r]] = StoredRoom(r)
       /\ players' = players
       /\ connections' = connections
       /\ \A d \in players : playerObj'[d] = playerObj[d]
       /\ \A d \in players : ws'[d].readyState = ws[d].readyState
       /\ sent' = NoSent]_vars

\* the close event of a connection that was evicted as stale has arrived:
\* the connection is still in the list of its room, and the connection
\* admitted in its place is registered and open
C38_Witness ==
  /\ ev.op = "close"
  /\ ev.c \notin players
  /\ \E r \in DOMAIN rooms : InSeq(ev.c, StoredRoom(r).players)
  /\ \E d \in players : Registered(d) /\ ws[d].readyState = "OPEN"
  /\ sent = NoSent

\* C39: only the connection currently registered for (room, name) can act
\* for that identity: a startGame or guess delivered by a connection that is
\* no longer in the registry changes neither the state of a room in the
\* Room Store nor the score of a player listed in such a room.
C39_OnlyRegisteredActs ==
  [][(/\ ev'.op = "message"
      /\ ev'.msg.type \in {"startGame", "guess"}
      /\ ~Registered(ev'.c)) =>
       \A r \in DOMAIN rooms :
         /\ r \in DOMAIN rooms'
         /\ heap'[rooms'[r]].stage = StoredRoom(r).stage
         /\ heap'[rooms'[r]].currentCard = StoredRoom(r).currentCard
         /\ heap'[rooms'[r]].deck = StoredRoom(r).deck
         /\ heap'[rooms'[r]].isGameStarted = StoredRoom(r).isGameStarted
         /\ heap'[rooms'[r]].players = StoredRoom(r).players
         /\ \A i \in 1..Len(StoredRoom(r).players) :
              playerObj'[StoredRoom(r).players[i]].score =
                playerObj[StoredRoom(r).players[i]].score]_vars

\* C40: a connection attempt for (room r, name n) is rejected as a duplicate,
\* or evicts a stale registration, only when the registered connection it
\* meets belongs to room r and has name n.
C40_SameIdentityOnly ==
  [][(\/ ev'.op = "connectDuplicate"
      \/ ev'.op = "connectJoin" /\ ev'.other # NullRef) =>
       /\ ev'.other \in DOMAIN playerObj
       /\ playerObj[ev'.other].roomId = ev'.roomId
       /\ playerObj[ev'.other].name = ev'.name]_vars

====
